---- MODULE Spec2Model ----
(***************************************************************************)
(* Scoring engines of the responsible-production evaluator.                *)
(*                                                                         *)
(*   src/tool.py     calculate_evaluation_scores over METRIC_CRITERIA      *)
(*   src/chatbot.py  calculate_score over THEMES, and the chat flow that   *)
(*                   leads to it                                           *)
(*                                                                         *)
(* Python values are tagged records: None, a number or a boolean.  A dict  *)
(* is a function; reading a key outside its DOMAIN is Python's KeyError.   *)
(* Indicator values are integers (what st.number_input and int(...) of a   *)
(* regex match produce), so every weighted score has one decimal and is    *)
(* carried in tenths.                                                      *)
(***************************************************************************)
EXTENDS Integers, Sequences, FiniteSets, TLC

VARIABLES eval_data,     \* tool.py: the argument of calculate_evaluation_scores
          ret,           \* tool.py: what the last call returned (or raised)
          chat,          \* chatbot.py: st.session_state["chat"]
          uploaded_pdf,  \* chatbot.py: the sidebar uploader holds a file
          run,           \* how the last script run ended, and on what input
          current_step,  \* tool.py: st.session_state["current_step"]
          extracted_data,     \* tool.py: st.session_state["extracted_data"]
          extracted_raw,      \* tool.py: the extraction of line 695, before the AI fills it
          pdf_extracted_text, \* tool.py: st.session_state["pdf_extracted_text"]
          report_text,        \* tool.py: st.session_state["report_text"]
          calls               \* tool.py: the frames of calculate_evaluation_scores under way

vars == <<eval_data, ret, chat, uploaded_pdf, run, current_step, extracted_data,
          extracted_raw, pdf_extracted_text, report_text, calls>>

---------------------------------------------------------------------------
(* Python values *)

None == [t |-> "none"]
Num(n) == [t |-> "num", n |-> n]
Bool(b) == [t |-> "bool", b |-> b]

\* bool(value): None, 0 and False are falsy
Truthy(v) == CASE v.t = "none" -> FALSE
               [] v.t = "num" -> v.n # 0
               [] v.t = "bool" -> v.b
               [] v.t = "str" -> v.s # ""

\* the number a value compares as (True is 1, False is 0)
AsNumber(v) == IF v.t = "bool" THEN (IF v.b THEN 1 ELSE 0) ELSE v.n

Min(a, b) == IF a <= b THEN a ELSE b
Max(a, b) == IF a >= b THEN a ELSE b

RECURSIVE SumSeq(_)
SumSeq(s) == IF s = <<>> THEN 0 ELSE s[1] + SumSeq(Tail(s))

---------------------------------------------------------------------------
(* tool.py: rule tables *)

METRIC_MAX_SCORES ==
  [g \in {"12.2", "12.3", "12.4", "12.5", "12.6", "12.7", "Others"} |->
     CASE g = "12.2" -> 29 [] g = "12.3" -> 9 [] g = "12.4" -> 16
       [] g = "12.5" -> 17 [] g = "12.6" -> 9 [] g = "12.7" -> 10
       [] g = "Others" -> 10]

\* A threshold text, character by character; "GE" is the greater-or-equal
\* glyph of the source text.
YesNo == <<"Y", "e", "s", "/", "N", "o">>
AtLeast(d1, d2) == <<"GE", d1, d2, "%">>
MoreThan(d1, d2) == <<">", d1, d2, "%">>

\* a rule whose points lose their sign: a penalty entered as a bonus
Rule_Unsigned(field, points, threshold) ==
  [field |-> field, points |-> IF points < 0 THEN 0 - points ELSE points,
   threshold |-> threshold]

Rule(field, points, threshold) ==
  [field |-> field, points |-> points, threshold |-> threshold]

METRIC_CRITERIA ==
  [g \in {"12.2", "12.3", "12.4", "12.5", "12.6", "12.7"} |->
     CASE g = "12.2" ->
            << Rule("renewable_share", 7, AtLeast("5", "0")),
               Rule("energy_retrofit", 5, YesNo),
               Rule("energy_increase", -5, YesNo),
               Rule("carbon_offsets_only", -3, YesNo),
               Rule("recycled_water_ratio", 5, AtLeast("7", "0")),
               Rule("ghg_disclosure", 7, YesNo),
               Rule("recycled_materials_pct", 5, AtLeast("3", "0")),
               Rule("illegal_logging", -7, YesNo) >>
       [] g = "12.3" ->
            << Rule("loss_tracking_system", 5, YesNo),
               Rule("loss_reduction_pct", 4, MoreThan("1", "0")) >>
       [] g = "12.4" ->
            << Rule("mrsl_zdhc_compliance", 5, YesNo),
               Rule("regular_emission_tests", 3, YesNo),
               Rule("hazardous_recovery_pct", 5, AtLeast("9", "0")),
               Rule("illegal_disposal", -3, YesNo),
               Rule("penalties", 3, YesNo) >>
       [] g = "12.5" ->
            << Rule("packaging_reduction_pct", 4, AtLeast("2", "0")),
               Rule("recycling_rate_pct", 4, AtLeast("8", "0")),
               Rule("sustainable_products_pct", 4, AtLeast("5", "0")),
               Rule("waste_disclosure_audit", 5, YesNo) >>
       [] g = "12.6" ->
            << Rule("emission_plans", 5, YesNo),
               Rule("annual_progress_disclosed", 4, YesNo),
               Rule("no_goals", -3, YesNo) >>
       [] g = "12.7" ->
            << Rule("esg_audited_suppliers_pct", 7, AtLeast("8", "0")),
               Rule("price_only_procurement", -3, YesNo),
               Rule("supply_chain_transparency", 3, YesNo) >>]

\* the eval_data group a metric group's rules read
GroupKey(g) == CASE g = "12.2" -> "12_2"
                 [] g \in {"12.3", "12.4"} -> "12_3_4"
                 [] g \in {"12.5", "12.6"} -> "12_5_6"
                 [] g = "12.7" -> "12_7"

---------------------------------------------------------------------------
(* tool.py: threshold parsing, re.sub(r"[>GE%]", "", threshold) and float() *)

HasPercent(threshold) == \E i \in DOMAIN threshold : threshold[i] = "%"

StripChars == {">", "GE", "%"}

RECURSIVE ReSub(_)
ReSub(s) == IF s = <<>> THEN <<>>
            ELSE IF s[1] \in StripChars THEN ReSub(Tail(s))
            ELSE <<s[1]>> \o ReSub(Tail(s))

Digits == {"0", "1", "2", "3", "4", "5", "6", "7", "8", "9"}

DigitValue(c) == CASE c = "0" -> 0 [] c = "1" -> 1 [] c = "2" -> 2 [] c = "3" -> 3
                   [] c = "4" -> 4 [] c = "5" -> 5 [] c = "6" -> 6 [] c = "7" -> 7
                   [] c = "8" -> 8 [] c = "9" -> 9

\* float(s) succeeds on a non-empty run of digits, raises ValueError otherwise
FloatOk(s) == s # <<>> /\ \A i \in DOMAIN s : s[i] \in Digits

RECURSIVE FloatOf(_)
FloatOf(s) == IF s = <<>> THEN 0
              ELSE 10 * FloatOf(SubSeq(s, 1, Len(s) - 1)) + DigitValue(s[Len(s)])

---------------------------------------------------------------------------
(* tool.py: calculate_evaluation_scores *)

\* dict[key], where a missing key raises KeyError
HasKey(d, k) == k \in DOMAIN d

\* lines 418-426 with the comparison turned round: value <= threshold_num
FiresAtLeast_AtMost(value, threshold) ==
  IF HasPercent(threshold) /\ value.t # "none"
  THEN FloatOk(ReSub(threshold)) /\ AsNumber(value) <= FloatOf(ReSub(threshold))
  ELSE Truthy(value)

\* lines 418-426 (and 448-456, 461-469, 480-488): the percentage branch
\* compares with >=, any other rule counts a truthy value
FiresAtLeast(value, threshold) ==
  IF HasPercent(threshold) /\ value.t # "none"
  THEN FloatOk(ReSub(threshold)) /\ AsNumber(value) >= FloatOf(ReSub(threshold))
  ELSE Truthy(value)

\* lines 431-439 with the >= of the other loops
FiresMoreThan_OrEqual(value, threshold) ==
  IF HasPercent(threshold) /\ value.t # "none"
  THEN FloatOk(ReSub(threshold)) /\ AsNumber(value) >= FloatOf(ReSub(threshold))
  ELSE Truthy(value)

\* lines 431-439: the loop of group 12.3 compares with >
FiresMoreThan(value, threshold) ==
  IF HasPercent(threshold) /\ value.t # "none"
  THEN FloatOk(ReSub(threshold)) /\ AsNumber(value) > FloatOf(ReSub(threshold))
  ELSE Truthy(value)

\* lines 473-475: the loop of group 12.6 never looks at the threshold
FiresTruthy(value, threshold) == Truthy(value)

\* line 444 without its "not": the rule counts the presence of penalties
FiresPenalties_WhenTrue(ed) == Truthy(ed["third_party"]["penalties"])

\* lines 443-445: the third-party rule of 12.4 counts the absence of penalties
FiresPenalties(ed) == ~Truthy(ed["third_party"]["penalties"])

RuleFires(g, ed, rule) ==
  CASE g = "12.3" -> FiresMoreThan(ed[GroupKey(g)][rule.field], rule.threshold)
    [] g = "12.6" -> FiresTruthy(ed[GroupKey(g)][rule.field], rule.threshold)
    [] g = "12.4" /\ rule.field = "penalties" -> FiresPenalties(ed)
    [] OTHER -> FiresAtLeast(ed[GroupKey(g)][rule.field], rule.threshold)

\* what one rule adds to scores[g]
RulePoints(g, ed, rule) == IF RuleFires(g, ed, rule) THEN rule.points ELSE 0

\* scores[g] after the loop over METRIC_CRITERIA[g], before the caps
RawScore(g, ed) ==
  SumSeq([i \in DOMAIN METRIC_CRITERIA[g] |-> RulePoints(g, ed, METRIC_CRITERIA[g][i])])

\* l.strip(): a line of blanks strips to the empty string
Strip(l) == IF l \in {"", " "} THEN "" ELSE l

\* line 491 without "* 5": a point per line instead of five
OthersScore_PointPerLine(ed) ==
  Min(10, Cardinality({i \in DOMAIN ed["other_positive_actions"] :
                         Strip(ed["other_positive_actions"][i]) # ""}))

\* line 491; other_positive_actions is held as its split("\n")
OthersScore(ed) ==
  Min(10, 5 * Cardinality({i \in DOMAIN ed["other_positive_actions"] :
                             Strip(ed["other_positive_actions"][i]) # ""}))

\* line 495 without its floor: min(scores[metric], METRIC_MAX_SCORES[metric])
CapFloor_NoFloor(g, s) == Min(s, METRIC_MAX_SCORES[g])

\* line 495
CapFloor(g, s) == Max(0, Min(s, METRIC_MAX_SCORES[g]))

RatingLow == "High Responsibility Enterprise (Low Risk)"
RatingModerate == "Compliant but Requires Improvement (Moderate Risk)"
RatingHigh == "Potential Environmental Risk (High Risk)"
RatingSevere == "High Ethical Risk (Severe Risk)"

\* line 499 with > for >=
RatingOf_Above75(overall) ==
  IF overall > 75 THEN RatingLow
  ELSE IF 60 <= overall /\ overall < 75 THEN RatingModerate
  ELSE IF 40 <= overall /\ overall < 60 THEN RatingHigh
  ELSE RatingSevere

\* lines 499-502
RatingOf(overall) ==
  IF overall >= 75 THEN RatingLow
  ELSE IF 60 <= overall /\ overall < 75 THEN RatingModerate
  ELSE IF 40 <= overall /\ overall < 60 THEN RatingHigh
  ELSE RatingSevere

MetricGroups == {"12.2", "12.3", "12.4", "12.5", "12.6", "12.7", "Others"}
GroupOrder == <<"12.2", "12.3", "12.4", "12.5", "12.6", "12.7", "Others">>

\* the keys the loops read, each a KeyError when absent
ReadsMissingKey(ed) ==
  \/ \E g \in DOMAIN METRIC_CRITERIA :
       \E i \in DOMAIN METRIC_CRITERIA[g] :
          LET f == METRIC_CRITERIA[g][i].field IN
            IF g = "12.4" /\ f = "penalties"
            THEN ~HasKey(ed, "third_party") \/ ~HasKey(ed["third_party"], "penalties")
            ELSE ~HasKey(ed, GroupKey(g)) \/ ~HasKey(ed[GroupKey(g)], f)
  \/ ~HasKey(ed, "other_positive_actions")

\* a third-party penalty taken off every group, not only counted in 12.4
GroupScore_PenaltyEverywhere(g, ed) ==
  CapFloor(g, (IF g = "Others" THEN OthersScore(ed) ELSE RawScore(g, ed))
              - (IF g # "12.4" /\ Truthy(ed["third_party"]["penalties"]) THEN 3 ELSE 0))

GroupScore(g, ed) ==
  CapFloor(g, IF g = "Others" THEN OthersScore(ed) ELSE RawScore(g, ed))

\* the overall total taken before lines 494-495 cap and floor the groups
calculate_evaluation_scores_SumBeforeFloor(ed) ==
  IF ReadsMissingKey(ed) THEN [status |-> "KeyError"]
  ELSE LET scores == [g \in MetricGroups |-> GroupScore(g, ed)]
           overall == SumSeq([i \in DOMAIN GroupOrder |->
                         IF GroupOrder[i] = "Others" THEN OthersScore(ed)
                         ELSE RawScore(GroupOrder[i], ed)])
       IN [status |-> "ok", scores |-> scores, overall |-> overall,
           rating |-> RatingOf(overall)]

\* lines 411-504
calculate_evaluation_scores(ed) ==
  IF ReadsMissingKey(ed) THEN [status |-> "KeyError"]
  ELSE LET scores == [g \in MetricGroups |-> GroupScore(g, ed)]
           overall == SumSeq([i \in DOMAIN GroupOrder |-> scores[GroupOrder[i]]])
       IN [status |-> "ok", scores |-> scores, overall |-> overall,
           rating |-> RatingOf(overall)]

---------------------------------------------------------------------------
(* chatbot.py: THEMES and calculate_score *)

\* A tiered percentage rule: 10 if x >= hi else 5 if x >= lo else 0
Tiers(key, hi, lo) == [key |-> key, kind |-> "tiers", hi |-> hi, lo |-> lo]
\* min(10, x * 5)
Count(key) == [key |-> key, kind |-> "count"]
\* 10 if x else 0
Flag(key) == [key |-> key, kind |-> "flag"]

\* A theme name is held word by word; a weight in hundredths.
THEMES ==
  << [name |-> <<"Resource", "Use", "Efficiency">>, weight |-> 30,
      metrics |-> << Tiers("renewable_energy_pct", 50, 30),
                     Tiers("water_reuse_pct", 70, 40),
                     Count("energy_saving_tech") >>,
      max_score |-> 30],
     [name |-> <<"Materials", "&", "Waste", "Management">>, weight |-> 30,
      metrics |-> << Tiers("recycled_materials_pct", 40, 20),
                     Tiers("waste_reduction_pct", 30, 15),
                     Flag("eco_certified_products") >>,
      max_score |-> 30],
     [name |-> <<"Circular", "Economy", "Practices">>, weight |-> 40,
      metrics |-> << Tiers("product_takeback_pct", 50, 20),
                     Tiers("sustainable_packaging_pct", 80, 50),
                     Tiers("supplier_sustainability_pct", 60, 30) >>,
      max_score |-> 30] >>

\* str.lower(), word by word
Lower(w) == CASE w = "Resource" -> "resource" [] w = "Use" -> "use"
              [] w = "Efficiency" -> "efficiency" [] w = "Materials" -> "materials"
              [] w = "Waste" -> "waste" [] w = "Management" -> "management"
              [] w = "Circular" -> "circular" [] w = "Economy" -> "economy"
              [] w = "Practices" -> "practices" [] OTHER -> w

\* line 206: theme["name"].lower().replace(" ", "_"); a key of the session
\* record is held as the words that its underscores join
ThemeKey(name) == [i \in DOMAIN name |-> Lower(name[i])]

\* metric["calc"](x) raises TypeError on None, except in "10 if x else 0"
CalcRaises(metric, x) == metric.kind # "flag" /\ x.t = "none"

\* the tiers tested in the other order: 5 if x >= lo else 10 if x >= hi else 0
Calc_LowerFirst(metric, x) ==
  CASE metric.kind = "tiers" ->
         IF AsNumber(x) >= metric.lo THEN 5
         ELSE IF AsNumber(x) >= metric.hi THEN 10 ELSE 0
    [] metric.kind = "count" -> Min(10, AsNumber(x) * 5)
    [] metric.kind = "flag" -> IF Truthy(x) THEN 10 ELSE 0

\* metric["calc"](x), lines 64-66, 74-76, 84-86
Calc(metric, x) ==
  CASE metric.kind = "tiers" ->
         IF AsNumber(x) >= metric.hi THEN 10
         ELSE IF AsNumber(x) >= metric.lo THEN 5 ELSE 0
    [] metric.kind = "count" -> Min(10, AsNumber(x) * 5)
    [] metric.kind = "flag" -> IF Truthy(x) THEN 10 ELSE 0

\* round(h / 100, 1) in tenths, for h in hundredths: to the nearest tenth,
\* a tie to the even one
Round1(h) ==
  LET q == h \div 10
      r == h % 10
  IN IF r < 5 THEN q
     ELSE IF r > 5 THEN q + 1
     ELSE IF q % 2 = 0 THEN q ELSE q + 1

\* line 208: the sum of the theme's rule points
ThemeRaw(theme, theme_data) ==
  SumSeq([i \in DOMAIN theme.metrics |->
            Calc(theme.metrics[i], theme_data[theme.metrics[i].key])])

\* line 209: round(score * weight, 1), in tenths
WeightedScore(theme, theme_data) == Round1(ThemeRaw(theme, theme_data) * theme.weight)

\* line 212: round(max_score * weight, 1), in tenths
WeightedMax(theme) == Round1(theme.max_score * theme.weight)

\* line 217: min(100, round(total, 1)), in tenths, for total in tenths
TotalScore(total) == Min(1000, Round1(total * 10))

\* what one pass of the loop body (lines 206-208) raises, if anything:
\* the first failing read or calc, in the order of the metrics
ThemeRaises(theme, data) ==
  IF ~HasKey(data, ThemeKey(theme.name)) THEN "KeyError"
  ELSE LET theme_data == data[ThemeKey(theme.name)]
           bad == {j \in DOMAIN theme.metrics :
                     \/ ~HasKey(theme_data, theme.metrics[j].key)
                     \/ CalcRaises(theme.metrics[j], theme_data[theme.metrics[j].key])}
       IN IF bad = {} THEN "ok"
          ELSE LET j == CHOOSE m \in bad : \A n \in bad : m <= n
               IN IF ~HasKey(theme_data, theme.metrics[j].key)
                  THEN "KeyError" ELSE "TypeError"

\* what the loop of lines 205-214 raises, if anything: the first theme's failure
ScoreRaises(data) ==
  LET bad == {i \in DOMAIN THEMES : ThemeRaises(THEMES[i], data) # "ok"}
  IN IF bad = {} THEN "ok"
     ELSE ThemeRaises(THEMES[CHOOSE m \in bad : \A n \in bad : m <= n], data)

Breakdown(data) ==
  [n \in {THEMES[i].name : i \in DOMAIN THEMES} |->
     LET theme == CHOOSE th \in {THEMES[i] : i \in DOMAIN THEMES} : th.name = n
     IN [score |-> WeightedScore(theme, data[ThemeKey(n)]),
         max |-> WeightedMax(theme)]]

KeyBreakdown == <<"breakdown">>
KeyTotalScore == <<"total", "score">>

\* calculate_score() keeping each weighted score in the theme's own group too:
\* theme_data["score"] = weighted_score
calculate_score_StoresInGroup(data) ==
  IF ScoreRaises(data) # "ok"
  THEN [ended |-> ScoreRaises(data), data |-> data]
  ELSE LET breakdown == Breakdown(data)
           total == SumSeq([i \in DOMAIN THEMES |-> breakdown[THEMES[i].name].score])
           themeOf(k) == CHOOSE i \in DOMAIN THEMES : ThemeKey(THEMES[i].name) = k
       IN [ended |-> "ok",
           data |-> [k \in DOMAIN data |->
                       IF k = KeyBreakdown THEN breakdown
                       ELSE IF k = KeyTotalScore THEN TotalScore(total)
                       ELSE IF \E i \in DOMAIN THEMES : ThemeKey(THEMES[i].name) = k
                       THEN [f \in DOMAIN data[k] \cup {"score"} |->
                               IF f = "score"
                               THEN Num(breakdown[THEMES[themeOf(k)].name].score)
                               ELSE data[k][f]]
                       ELSE data[k]]]

\* calculate_score(): the session record it leaves, and how it ended
calculate_score(data) ==
  IF ScoreRaises(data) # "ok"
  THEN [ended |-> ScoreRaises(data), data |-> data]
  ELSE LET breakdown == Breakdown(data)
           total == SumSeq([i \in DOMAIN THEMES |-> breakdown[THEMES[i].name].score])
       IN [ended |-> "ok",
           data |-> [k \in DOMAIN data |->
                       IF k = KeyBreakdown THEN breakdown
                       ELSE IF k = KeyTotalScore THEN TotalScore(total)
                       ELSE data[k]]]

---------------------------------------------------------------------------
(* chatbot.py: the session record *)

Str(x) == [t |-> "str", s |-> x]

KeyCompany == <<"company">>
KeyIndustry == <<"industry">>
KeyResourceUse == <<"resource", "use">>
KeyMaterialsWaste == <<"materials", "waste">>
KeyCircularPractices == <<"circular", "practices">>
KeyRecommendations == <<"recommendations">>

ResourceUse(renewable, water, tech, extra) ==
  [renewable_energy_pct |-> renewable, water_reuse_pct |-> water,
   energy_saving_tech |-> tech, extra_resource |-> Str(extra)]

MaterialsWaste(recycled, reduction, eco, extra) ==
  [recycled_materials_pct |-> recycled, waste_reduction_pct |-> reduction,
   eco_certified_products |-> eco, extra_materials |-> Str(extra)]

CircularPractices(takeback, packaging, supplier, extra) ==
  [product_takeback_pct |-> takeback, sustainable_packaging_pct |-> packaging,
   supplier_sustainability_pct |-> supplier, extra_circular |-> Str(extra)]

\* lines 28-52
InitialData ==
  KeyCompany :> "" @@ KeyIndustry :> ""
  @@ KeyResourceUse :> ResourceUse(Num(0), Num(0), Num(0), "")
  @@ KeyMaterialsWaste :> MaterialsWaste(Num(0), Num(0), Bool(FALSE), "")
  @@ KeyCircularPractices :> CircularPractices(Num(0), Num(0), Num(0), "")
  @@ KeyTotalScore :> 0 @@ KeyBreakdown :> <<>> @@ KeyRecommendations :> <<>>

\* lines 25-56; the message history is display only and is left out
InitialChat ==
  [mode |-> "None", data |-> InitialData, manual_round |-> 1,
   completed |-> FALSE, pdf_text |-> ""]

\* data[group][key] = value
SetIn(data, group, key, value) ==
  [data EXCEPT ![group] = [@ EXCEPT ![key] = value]]

\* {**a, **b}
Merge(a, b) ==
  [k \in (DOMAIN a) \cup (DOMAIN b) |-> IF k \in DOMAIN b THEN b[k] ELSE a[k]]

---------------------------------------------------------------------------
(* chatbot.py: one script run per action *)

\* What a chat message states about one indicator: nothing, or a number.
Stated == {None, Num(55)}

\* int(re.findall(...)[0]) if re.findall(...) else 0
Parsed(stated) == IF stated.t = "none" THEN Num(0) ELSE stated

\* What the model's JSON reply holds for the three groups it is asked for.
ReplyGroups ==
  { KeyCompany :> "Acme"
    @@ KeyResourceUse :> ResourceUse(v, v, Num(2), "estimated")
    @@ KeyMaterialsWaste :> MaterialsWaste(v, v, Bool(b), "estimated")
    @@ KeyCircularPractices :> CircularPractices(v, v, v, "estimated")
    : v \in {Num(0), Num(55)}, b \in BOOLEAN }

\* The reply is whatever JSON object the model returns: it may hold groups
\* beyond the three asked for, such as groups named after the themes.
ReplyExtras(groups) ==
  { <<>>,
    ThemeKey(THEMES[1].name) :> groups[KeyResourceUse]
    @@ ThemeKey(THEMES[2].name) :> groups[KeyMaterialsWaste]
    @@ ThemeKey(THEMES[3].name) :> groups[KeyCircularPractices] }

\* ai_extract_data: None, or the parsed reply
Replies == UNION {{Merge(g, e) : e \in ReplyExtras(g)} : g \in ReplyGroups}

Ended(how, on) == [ended |-> how, on |-> on]

UserTurn == run.ended # "rerun"

\* line 261: the uploader holds a file and the mode is not upload_industry
ExtractsPdf(up) == up /\ chat.mode # "upload_industry"

\* lines 262-268: extract_pdf_text gives the text, or "" when it fails
PdfBranch(on) ==
  /\ \E ok \in BOOLEAN :
       chat' = IF ok THEN [chat EXCEPT !.pdf_text = "text", !.mode = "upload_industry"]
               ELSE [chat EXCEPT !.pdf_text = ""]
  /\ run' = Ended("rerun", on)

\* a run in which no chat input and no button is submitted
QuietRun(up, on) ==
  IF ExtractsPdf(up) THEN PdfBranch(on)
  ELSE chat' = chat /\ run' = Ended("idle", on)

UploadPdf ==
  /\ UserTurn /\ ~uploaded_pdf
  /\ uploaded_pdf' = TRUE
  /\ QuietRun(TRUE, "upload")
  /\ UNCHANGED <<calls, report_text, pdf_extracted_text, extracted_raw, current_step, extracted_data, eval_data, ret>>

RemovePdf ==
  /\ UserTurn /\ uploaded_pdf
  /\ uploaded_pdf' = FALSE
  /\ QuietRun(FALSE, "remove")
  /\ UNCHANGED <<calls, report_text, pdf_extracted_text, extracted_raw, current_step, extracted_data, eval_data, ret>>

\* the run that st.rerun() starts
Rerun ==
  /\ run.ended = "rerun"
  /\ QuietRun(uploaded_pdf, "rerun")
  /\ UNCHANGED <<calls, report_text, pdf_extracted_text, extracted_raw, current_step, extracted_data, eval_data, ret, uploaded_pdf>>

\* lines 430-437
SayStart ==
  /\ UserTurn /\ ~ExtractsPdf(uploaded_pdf)
  /\ chat.mode = "None" /\ ~chat.completed /\ ~uploaded_pdf
  /\ chat' = [chat EXCEPT !.mode = "manual"]
  /\ run' = Ended("rerun", "start")
  /\ UNCHANGED <<calls, report_text, pdf_extracted_text, extracted_raw, current_step, extracted_data, eval_data, ret, uploaded_pdf>>

\* lines 270-288
GiveUploadIndustry ==
  /\ UserTurn /\ ~ExtractsPdf(uploaded_pdf)
  /\ chat.mode = "upload_industry" /\ ~chat.completed
  /\ \/ \E extracted \in Replies :
          chat' = [chat EXCEPT
                     !.data = [Merge(chat.data, extracted) EXCEPT ![KeyIndustry] = "Retail"],
                     !.mode = "upload_final"]
     \/ chat' = [chat EXCEPT !.mode = "manual"]
  /\ run' = Ended("rerun", "upload_industry")
  /\ UNCHANGED <<calls, report_text, pdf_extracted_text, extracted_raw, current_step, extracted_data, eval_data, ret, uploaded_pdf>>

\* lines 296-299 and 366-369: calculate_score() and what follows it
ScoreAndComplete(c, on) ==
  LET scored == calculate_score(c.data) IN
    IF scored.ended = "ok"
    THEN /\ chat' = [c EXCEPT !.data = [scored.data EXCEPT ![KeyRecommendations] = <<"advice">>],
                              !.completed = TRUE]
         /\ run' = Ended("rerun", on)
    ELSE /\ chat' = c
         /\ run' = Ended(scored.ended, on)

\* lines 290-299; the text appended to extra_circular is held as one fixed
\* continuation
GiveExtra ==
  /\ UserTurn /\ ~ExtractsPdf(uploaded_pdf)
  /\ chat.mode = "upload_final" /\ ~chat.completed
  /\ ScoreAndComplete(
       [chat EXCEPT !.data = SetIn(chat.data, KeyCircularPractices, "extra_circular",
                                   Str("estimated and more"))],
       "extra")
  /\ UNCHANGED <<calls, report_text, pdf_extracted_text, extracted_raw, current_step, extracted_data, eval_data, ret, uploaded_pdf>>

Manual(round) ==
  /\ UserTurn /\ ~ExtractsPdf(uploaded_pdf)
  /\ chat.mode = "manual" /\ ~chat.completed /\ chat.manual_round = round

\* lines 305-312
GiveCompany ==
  /\ Manual(1)
  /\ chat' = [chat EXCEPT !.data = [@ EXCEPT ![KeyCompany] = "Acme"], !.manual_round = 2]
  /\ run' = Ended("rerun", "company")
  /\ UNCHANGED <<calls, report_text, pdf_extracted_text, extracted_raw, current_step, extracted_data, eval_data, ret, uploaded_pdf>>

\* lines 314-325
GiveIndustry ==
  /\ Manual(2) /\ chat.data[KeyIndustry] = ""
  /\ chat' = [chat EXCEPT !.data = [@ EXCEPT ![KeyIndustry] = "Retail"]]
  /\ run' = Ended("rerun", "industry")
  /\ UNCHANGED <<calls, report_text, pdf_extracted_text, extracted_raw, current_step, extracted_data, eval_data, ret, uploaded_pdf>>

\* lines 326-340
GiveResource ==
  /\ Manual(2) /\ chat.data[KeyIndustry] # ""
  /\ \E a \in Stated, b \in Stated, c \in Stated :
       chat' = [chat EXCEPT
                  !.data = [@ EXCEPT ![KeyResourceUse] =
                              ResourceUse(Parsed(a), Parsed(b), Parsed(c), "res_info")],
                  !.manual_round = 3]
  /\ run' = Ended("rerun", "resource")
  /\ UNCHANGED <<calls, report_text, pdf_extracted_text, extracted_raw, current_step, extracted_data, eval_data, ret, uploaded_pdf>>

\* lines 342-356
GiveMaterials ==
  /\ Manual(3)
  /\ \E a \in Stated, b \in Stated, yes \in BOOLEAN :
       chat' = [chat EXCEPT
                  !.data = [@ EXCEPT ![KeyMaterialsWaste] =
                              MaterialsWaste(Parsed(a), Parsed(b), Bool(yes), "mat_info")],
                  !.manual_round = 4]
  /\ run' = Ended("rerun", "materials")
  /\ UNCHANGED <<calls, report_text, pdf_extracted_text, extracted_raw, current_step, extracted_data, eval_data, ret, uploaded_pdf>>

\* lines 358-369
GiveCircular ==
  /\ Manual(4)
  /\ \E a \in Stated, b \in Stated, c \in Stated :
       ScoreAndComplete(
         [chat EXCEPT !.data = [@ EXCEPT ![KeyCircularPractices] =
                                  CircularPractices(Parsed(a), Parsed(b), Parsed(c), "circ_info")]],
         "circular")
  /\ UNCHANGED <<calls, report_text, pdf_extracted_text, extracted_raw, current_step, extracted_data, eval_data, ret, uploaded_pdf>>

\* lines 409-427
AssessAnother ==
  /\ UserTurn /\ ~ExtractsPdf(uploaded_pdf)
  /\ chat.completed
  /\ chat' = InitialChat
  /\ run' = Ended("rerun", "another")
  /\ UNCHANGED <<calls, report_text, pdf_extracted_text, extracted_raw, current_step, extracted_data, eval_data, ret, uploaded_pdf>>

---------------------------------------------------------------------------
(* The chat flow, from the initial session *)

\* lines 276-307
Group12_2(renewable, retrofit, increase, offsets, water, ghg, materials, logging) ==
  [renewable_share |-> renewable, energy_retrofit |-> retrofit,
   energy_increase |-> increase, carbon_offsets_only |-> offsets,
   recycled_water_ratio |-> water, ghg_disclosure |-> ghg,
   recycled_materials_pct |-> materials, illegal_logging |-> logging]

Group12_3_4(tracking, reduction, mrsl, tests, recovery, disposal) ==
  [loss_tracking_system |-> tracking, loss_reduction_pct |-> reduction,
   mrsl_zdhc_compliance |-> mrsl, regular_emission_tests |-> tests,
   hazardous_recovery_pct |-> recovery, illegal_disposal |-> disposal]

Group12_5_6(packaging, recycling, products, audit, plans, progress, nogoals, assets) ==
  [packaging_reduction_pct |-> packaging, recycling_rate_pct |-> recycling,
   sustainable_products_pct |-> products, waste_disclosure_audit |-> audit,
   emission_plans |-> plans, annual_progress_disclosed |-> progress,
   no_goals |-> nogoals, high_carbon_assets_disclosed |-> assets]

Group12_7(audited, priceonly, transparency) ==
  [esg_audited_suppliers_pct |-> audited, price_only_procurement |-> priceonly,
   supply_chain_transparency |-> transparency]

F == Bool(FALSE)
T == Bool(TRUE)

\* target_scores before any report: {}
NoScores == [g \in {} |-> 0]

EvalData(third_party, g12_2, g12_3_4, g12_5_6, g12_7, actions) ==
  "company_name" :> "" @@ "industry" :> "Manufacturing"
  @@ "third_party" :> third_party @@ "12_2" :> g12_2 @@ "12_3_4" :> g12_3_4
  @@ "12_5_6" :> g12_5_6 @@ "12_7" :> g12_7
  @@ "additional_notes" :> "" @@ "target_scores" :> NoScores
  @@ "overall_score" :> 0 @@ "rating" :> "" @@ "other_positive_actions" :> actions

\* "".split("\n") is [""]
InitialEvalData ==
  EvalData([penalties |-> F],
           Group12_2(None, F, F, F, None, F, None, F),
           Group12_3_4(F, None, F, F, None, F),
           Group12_5_6(None, None, None, F, F, F, F, F),
           Group12_7(None, F, F),
           <<"">>)

NoCall == [status |-> "none"]

\* line 313: st.session_state["extracted_data"] = {}
NoData == [f \in {} |-> None]

\* the session holds no "report_text" key before a report is generated
NoReport == None

\* no call of calculate_evaluation_scores is under way
NoCalls == <<>>

InitChat ==
  /\ chat = InitialChat
  /\ uploaded_pdf = FALSE
  /\ run = Ended("idle", "load")
  /\ eval_data = InitialEvalData
  /\ ret = NoCall
  /\ current_step = 0
  /\ extracted_data = NoData
  /\ extracted_raw = NoData
  /\ pdf_extracted_text = ""
  /\ report_text = NoReport
  /\ calls = NoCalls

NextChat ==
  \/ UploadPdf \/ RemovePdf \/ Rerun \/ SayStart
  \/ GiveUploadIndustry \/ GiveExtra
  \/ GiveCompany \/ GiveIndustry \/ GiveResource \/ GiveMaterials \/ GiveCircular
  \/ AssessAnother

SpecChat == InitChat /\ [][NextChat]_vars

\* st.rerun() always starts the next run; nothing makes the user act
SpecChatLive == InitChat /\ [][NextChat]_vars /\ WF_vars(Rerun)

---------------------------------------------------------------------------
(* The two scorers as functions of their input *)

MaxLines == 3

\* the lines of other_positive_actions: empty, blank or text
LineSamples == {"", " ", "- action"}

ActionTexts == UNION {[1..n -> LineSamples] : n \in 1..MaxLines}

\* None, zero and the values around a rule's threshold
PctSamples(threshold) ==
  LET n == FloatOf(ReSub(threshold))
  IN {None, Num(0), Num(n - 1), Num(n), Num(n + 1)}

Pct(g, i) == PctSamples(METRIC_CRITERIA[g][i].threshold)

YesOrNo == {F, T}

All12_2 ==
  {Group12_2(a, b, c, d, e, f, g, h) :
     a \in Pct("12.2", 1), b \in YesOrNo, c \in YesOrNo, d \in YesOrNo,
     e \in Pct("12.2", 5), f \in YesOrNo, g \in Pct("12.2", 7), h \in YesOrNo}

All12_3_4 ==
  {Group12_3_4(a, b, c, d, e, f) :
     a \in YesOrNo, b \in Pct("12.3", 2), c \in YesOrNo, d \in YesOrNo,
     e \in Pct("12.4", 3), f \in YesOrNo}

All12_5_6 ==
  {Group12_5_6(a, b, c, d, e, f, g, h) :
     a \in Pct("12.5", 1), b \in Pct("12.5", 2), c \in Pct("12.5", 3),
     d \in YesOrNo, e \in YesOrNo, f \in YesOrNo, g \in YesOrNo, h \in YesOrNo}

All12_7 ==
  {Group12_7(a, b, c) : a \in Pct("12.7", 1), b \in YesOrNo, c \in YesOrNo}

\* Three records that the input steps can leave: nothing reported, a middling
\* company, and every positive practice with no penalty.
ProfileMid ==
  EvalData([penalties |-> F],
           Group12_2(Num(50), T, F, F, None, T, None, F),
           Group12_3_4(T, None, F, F, None, F),
           Group12_5_6(Num(20), None, None, F, T, T, F, F),
           Group12_7(Num(80), F, T),
           <<"">>)

ProfileMax ==
  EvalData([penalties |-> F],
           Group12_2(Num(100), T, F, F, Num(100), T, Num(100), F),
           Group12_3_4(T, Num(100), T, T, Num(100), F),
           Group12_5_6(Num(100), Num(100), Num(100), T, T, T, F, T),
           Group12_7(Num(100), F, T),
           <<"- action", "- action">>)

Profiles == {InitialEvalData, ProfileMid, ProfileMax}

\* One part of the record takes every sampled value, the others a profile's.
IsEvalInput(ed) ==
  \E p \in Profiles :
     \/ \E x \in All12_2 : ed = [p EXCEPT !["12_2"] = x]
     \/ \E x \in All12_3_4, b \in YesOrNo :
          ed = [p EXCEPT !["12_3_4"] = x, !["third_party"] = [penalties |-> b]]
     \/ \E x \in All12_5_6 : ed = [p EXCEPT !["12_5_6"] = x]
     \/ \E x \in All12_7 : ed = [p EXCEPT !["12_7"] = x]
     \/ \E b \in YesOrNo, a \in ActionTexts :
          ed = [p EXCEPT !["third_party"] = [penalties |-> b],
                         !["other_positive_actions"] = a]

\* the values around a tiered rule's two thresholds, and one above the scale
TierSamples(metric) ==
  {Num(0), Num(metric.lo - 1), Num(metric.lo), Num(metric.hi - 1), Num(metric.hi),
   Num(100), Num(101)}

CountSamples == {Num(-1), Num(0), Num(1), Num(2), Num(3)}

MetricSamples(metric) ==
  CASE metric.kind = "tiers" -> TierSamples(metric)
    [] metric.kind = "count" -> CountSamples
    [] metric.kind = "flag" -> YesOrNo

\* the groups of the three themes, one of them sampled, the others all at
\* their least or all at their most
BestValue(metric) == IF metric.kind = "flag" THEN T ELSE Num(100)
LeastValue(metric) == IF metric.kind = "flag" THEN F ELSE Num(0)

ThemeGroup(i, a, b, c, extra) ==
  THEMES[i].metrics[1].key :> a @@ THEMES[i].metrics[2].key :> b
  @@ THEMES[i].metrics[3].key :> c
  @@ (CASE i = 1 -> "extra_resource" [] i = 2 -> "extra_materials"
        [] i = 3 -> "extra_circular") :> Str(extra)

ThemeGroups(i) ==
  {ThemeGroup(i, a, b, c, "info") :
     a \in MetricSamples(THEMES[i].metrics[1]),
     b \in MetricSamples(THEMES[i].metrics[2]),
     c \in MetricSamples(THEMES[i].metrics[3])}

FlatGroup(i, best) ==
  LET v(j) == IF best THEN BestValue(THEMES[i].metrics[j])
              ELSE LeastValue(THEMES[i].metrics[j])
  IN ThemeGroup(i, v(1), v(2), v(3), "info")

SessionKeys == <<KeyResourceUse, KeyMaterialsWaste, KeyCircularPractices>>

\* the session record with the three groups under its own keys
SessionShaped(g) ==
  [k \in DOMAIN InitialData |->
     IF \E i \in 1..3 : SessionKeys[i] = k
     THEN g[CHOOSE i \in 1..3 : SessionKeys[i] = k]
     ELSE InitialData[k]]

\* the session record after a reply that held the groups under the theme keys
ThemeShaped(g) ==
  Merge(InitialData,
        ThemeKey(THEMES[1].name) :> g[1] @@ ThemeKey(THEMES[2].name) :> g[2]
        @@ ThemeKey(THEMES[3].name) :> g[3])

\* the groups of one theme sampled, those of the others flat
Triple(focus, x, best) == [i \in 1..3 |-> IF i = focus THEN x ELSE FlatGroup(i, best)]

\* a session about to be scored
IsThemeInput(c) ==
  \E focus \in 1..3, best \in BOOLEAN :
     \E x \in ThemeGroups(focus) :
        \/ c = [InitialChat EXCEPT !.data = SessionShaped(Triple(focus, x, best))]
        \/ c = [InitialChat EXCEPT !.data = ThemeShaped(Triple(focus, x, best))]

\* a dict without one of its keys
Without(d, k) == [x \in (DOMAIN d) \ {k} |-> d[x]]

EvalGroups == {"12_2", "12_3_4", "12_5_6", "12_7"}

\* the indicators that the rules read, per eval_data group
RuleFields(group) ==
  UNION {{METRIC_CRITERIA[g][i].field : i \in DOMAIN METRIC_CRITERIA[g]} :
           g \in {h \in DOMAIN METRIC_CRITERIA : GroupKey(h) = group}}
  \ {"penalties"}

\* A record in which one indicator that the rules read is missing: its key is
\* absent, or its value is None.
IsDegradedEvalInput(ed) ==
  \E p \in Profiles, group \in EvalGroups :
     \E f \in (DOMAIN p[group]) \cap RuleFields(group) :
        \/ ed = [p EXCEPT ![group] = Without(@, f)]
        \/ ed = [p EXCEPT ![group][f] = None]

IsDegradedThemeInput(c) ==
  \E i \in 1..3, j \in 1..3, best \in BOOLEAN :
     LET g == [n \in 1..3 |-> FlatGroup(n, best)]
         key == THEMES[i].metrics[j].key
         absent == [g EXCEPT ![i] = Without(@, key)]
         none == [g EXCEPT ![i][key] = None]
     IN \/ c = [InitialChat EXCEPT !.data = SessionShaped(absent)]
        \/ c = [InitialChat EXCEPT !.data = SessionShaped(none)]
        \/ c = [InitialChat EXCEPT !.data = ThemeShaped(absent)]
        \/ c = [InitialChat EXCEPT !.data = ThemeShaped(none)]

\* The record in which every indicator has its zero value
ZeroEvalData ==
  EvalData([penalties |-> F],
           Group12_2(Num(0), F, F, F, Num(0), F, Num(0), F),
           Group12_3_4(F, Num(0), F, F, Num(0), F),
           Group12_5_6(Num(0), Num(0), Num(0), F, F, F, F, F),
           Group12_7(Num(0), F, F),
           <<"">>)

\* values outside the scale of a percentage
OffScale == {Num(-5), Num(150)}

\* A record in which one percentage that the rules read is off the scale
IsOffScaleEvalInput(ed) ==
  \E p \in Profiles, g \in DOMAIN METRIC_CRITERIA :
     \E i \in DOMAIN METRIC_CRITERIA[g], v \in OffScale :
        /\ HasPercent(METRIC_CRITERIA[g][i].threshold)
        /\ ed = [p EXCEPT ![GroupKey(g)][METRIC_CRITERIA[g][i].field] = v]

\* single records of interest beside the sampled families
IsNamedEvalInput(ed) ==
  \/ ed = ZeroEvalData

\* A session in which the resource group reports 55% renewable energy and 45%
\* water reuse, and nothing else is reported
ScenarioGroups ==
  [i \in 1..3 |-> IF i = 1 THEN ThemeGroup(1, Num(55), Num(45), Num(0), "info")
                  ELSE FlatGroup(i, FALSE)]

IsScenarioInput(c) ==
  \/ c = [InitialChat EXCEPT !.data = SessionShaped(ScenarioGroups)]
  \/ c = [InitialChat EXCEPT !.data = ThemeShaped(ScenarioGroups)]

AtEvaluate == Ended("idle", "calculate_evaluation_scores")
AtScore == Ended("idle", "calculate_score")

InitScoring ==
  /\ uploaded_pdf = FALSE
  /\ current_step = 0
  /\ extracted_data = NoData
  /\ extracted_raw = NoData
  /\ pdf_extracted_text = ""
  /\ report_text = NoReport
  /\ calls = NoCalls
  /\ ret = NoCall
  /\ \/ /\ \/ IsEvalInput(eval_data) \/ IsDegradedEvalInput(eval_data)
           \/ IsNamedEvalInput(eval_data) \/ IsOffScaleEvalInput(eval_data)
        /\ run = AtEvaluate
        /\ chat = InitialChat
     \/ /\ eval_data = InitialEvalData
        /\ run = AtScore
        /\ IsThemeInput(chat) \/ IsDegradedThemeInput(chat) \/ IsScenarioInput(chat)

\* line 945: the call of calculate_evaluation_scores
Evaluate ==
  /\ run = AtEvaluate
  /\ ret = NoCall
  /\ ret' = calculate_evaluation_scores(eval_data)
  /\ UNCHANGED <<calls, report_text, pdf_extracted_text, extracted_raw, current_step, extracted_data, eval_data, chat, uploaded_pdf, run>>

\* lines 296 and 366: the call of calculate_score
CalculateScore ==
  /\ run = AtScore
  /\ chat' = [chat EXCEPT !.data = calculate_score(chat.data).data]
  /\ run' = Ended(calculate_score(chat.data).ended, "calculate_score")
  /\ UNCHANGED <<calls, report_text, pdf_extracted_text, extracted_raw, current_step, extracted_data, eval_data, ret, uploaded_pdf>>

NextScoring == Evaluate \/ CalculateScore

Spec == InitScoring /\ [][NextScoring]_vars

---------------------------------------------------------------------------
(* tool.py: PDF extraction, the confirmation page and the report *)

\* lines 163-195: field_groups, each field with the widget that shows it
field_groups ==
  [number |-> {"renewable_share", "recycled_water_ratio", "recycled_materials_pct",
               "loss_reduction_pct", "hazardous_recovery_pct",
               "packaging_reduction_pct", "recycling_rate_pct",
               "sustainable_products_pct", "esg_audited_suppliers_pct"},
   bool |-> {"energy_retrofit", "energy_increase", "carbon_offsets_only",
             "ghg_disclosure", "illegal_logging", "loss_tracking_system",
             "illegal_disposal", "waste_disclosure_audit", "emission_plans",
             "annual_progress_disclosed", "no_goals", "high_carbon_assets_disclosed",
             "price_only_procurement", "supply_chain_transparency"}]

FormFields == field_groups.number \cup field_groups.bool

\* lines 226-237: the fields that the confirm handler copies, per group
ConfirmFields ==
  "12_2" :> {"renewable_share", "energy_retrofit", "energy_increase",
             "carbon_offsets_only", "recycled_water_ratio", "ghg_disclosure",
             "recycled_materials_pct", "illegal_logging"}
  @@ "12_3_4" :> {"loss_tracking_system", "loss_reduction_pct", "mrsl_zdhc_compliance",
                  "regular_emission_tests", "hazardous_recovery_pct", "illegal_disposal"}
  @@ "12_5_6" :> {"packaging_reduction_pct", "recycling_rate_pct",
                  "sustainable_products_pct", "waste_disclosure_audit", "emission_plans",
                  "annual_progress_disclosed", "no_goals", "high_carbon_assets_disclosed"}
  @@ "12_7" :> {"esg_audited_suppliers_pct", "price_only_procurement",
                "supply_chain_transparency"}

\* What json.loads gives for one metric of the AI's reply: the key left out,
\* null, a value of the asked type, or a text
Absent == [t |-> "absent"]
RawFlags == {Absent, None, T, Str("No")}
RawShares == {Absent, None, Num(35), Num(150)}

\* the dict of the keys that the reply holds
Pack(d) == [f \in {x \in DOMAIN d : d[x] # Absent} |-> d[f]]

\* lines 75-129: what extract_assessment_data_from_pdf returns; a failed
\* extraction gives {}, as does line 699 when the AI is disabled
Extractions ==
  {NoData}
  \cup {Pack("mrsl_zdhc_compliance" :> a @@ "regular_emission_tests" :> b
             @@ "renewable_share" :> Num(35) @@ "energy_retrofit" :> T) :
          a \in RawFlags, b \in {Absent, Str("No")}}
  \cup {Pack("renewable_share" :> c @@ "energy_retrofit" :> T) : c \in RawShares}
  \cup {Pack("renewable_share" :> Num(35) @@ "energy_retrofit" :> d) :
          d \in {None, T, Str("No")}}

\* rules 1 and 2 of the prompt of lines 140-148: what the AI puts for a null
Benchmark(f) == IF f \in field_groups.number THEN Num(35) ELSE T

\* lines 131-155: the returns of ai_fill_missing_metrics: the data as given
\* (nothing to fill, no reply, a reply that does not parse), or the reply with
\* the nulls filled
ai_fill_missing_metrics(extracted) ==
  {extracted} \cup
  (IF extracted # NoData /\ \E f \in DOMAIN extracted : extracted[f] = None
   THEN {[f \in DOMAIN extracted |->
            IF extracted[f] = None THEN Benchmark(f) ELSE extracted[f]]}
   ELSE {})

\* a script run of the tool ended without raising; st.rerun() then draws the
\* page of current_step, which changes nothing on the pages 0, 1, 6 and 7
ToolRun(on) == Ended("idle", on)

\* a script run that ended in st.rerun() towards a manual input step, whose
\* drawing writes eval_data
ToolRerun(on) == Ended("rerun", on)

\* lines 317-321: the names the industry select box offers
ENRICHED_INDUSTRIES ==
  <<"Manufacturing", "Food & Beverage", "Textiles", "Chemicals", "Electronics",
    "Automotive", "Construction", "Healthcare", "Retail", "Agriculture",
    "Logistics", "Pharmaceuticals", "Paper & Pulp", "Furniture", "Cosmetics", "Other">>

\* the industry picked in the runs followed here
PickedIndustries == {ENRICHED_INDUSTRIES[3]}

\* lines 689-707: "Extract Data from PDF" on the home page
ExtractData ==
  /\ current_step = 0
  /\ \E raw \in Extractions, penalties \in YesOrNo, industry \in PickedIndustries :
       /\ extracted_raw' = raw
       /\ extracted_data' \in ai_fill_missing_metrics(raw)
       /\ eval_data' = [eval_data EXCEPT !["company_name"] = "Acme",
                                         !["industry"] = industry,
                                         !["third_party"] = [penalties |-> penalties]]
  /\ current_step' = 1
  /\ pdf_extracted_text' = "text"
  /\ run' = ToolRun("extract")
  /\ UNCHANGED <<calls, report_text, ret, chat, uploaded_pdf>>

\* line 203: confirmed_data.get(field, None)
CurrentValue(f) == IF HasKey(extracted_data, f) THEN extracted_data[f] ELSE None

\* line 204: the '*' of a field's label; extracted_data is the stored data
\* that the page was given, and confirmed_data[field] is still its copy when
\* the field is read
ai_filled(f) == CurrentValue(f) # None /\ CurrentValue(f) = None

\* lines 206-211: st.number_input(min_value=0, max_value=100, step=1, value=...)
\* raises for a value that is no integer within the bounds
NumberInputRaises(f) ==
  /\ CurrentValue(f) # None
  /\ ~(CurrentValue(f).t = "num" /\ CurrentValue(f).n \in 0..100)

\* the page draws all its widgets and reaches its buttons
RendersForm == \A f \in field_groups.number : ~NumberInputRaises(f)

\* what a widget shows before the user touches it
WidgetDefault(f) ==
  IF f \in field_groups.number
  THEN (IF CurrentValue(f) = None THEN Num(0) ELSE CurrentValue(f))
  ELSE Bool(Truthy(CurrentValue(f)))

\* what the user may set on the page: nothing, or one widget
Edits ==
  {NoData} \cup {("renewable_share" :> Num(100))}
  \cup {("energy_retrofit" :> b) : b \in YesOrNo}

\* lines 197-217: confirmed_data after the loop over the widgets
ConfirmedData(edits) ==
  [f \in FormFields \cup DOMAIN extracted_data |->
     IF f \in DOMAIN edits THEN edits[f]
     ELSE IF f \in FormFields THEN WidgetDefault(f)
     ELSE extracted_data[f]]

\* lines 224-238: the confirmed values copied into the groups of eval_data
MapConfirmed(ed, confirmed) ==
  [g \in DOMAIN ed |->
     IF g \in DOMAIN ConfirmFields
     THEN [f \in DOMAIN ed[g] \cup (ConfirmFields[g] \cap DOMAIN confirmed) |->
             IF f \in ConfirmFields[g] \cap DOMAIN confirmed
             THEN confirmed[f] ELSE ed[g][f]]
     ELSE ed[g]]

\* lines 222-241: "Confirm Data & Proceed"
ConfirmData ==
  /\ current_step = 1
  /\ RendersForm
  /\ \E edits \in Edits : eval_data' = MapConfirmed(eval_data, ConfirmedData(edits))
  /\ current_step' = 6
  /\ run' = ToolRun("confirm")
  /\ UNCHANGED <<calls, report_text, pdf_extracted_text, extracted_raw, ret, chat, uploaded_pdf, extracted_data>>

\* lines 243-246: "Re-Extract from PDF"
ReExtract ==
  /\ current_step = 1
  /\ RendersForm
  /\ current_step' = 0
  /\ run' = ToolRun("reextract")
  /\ UNCHANGED <<calls, report_text, pdf_extracted_text, extracted_raw, eval_data, ret, chat, uploaded_pdf, extracted_data>>

\* lines 389-409: what ai_identify_additional_actions returns, split in lines
IdentifiedActions == {<<"- action">>, <<"- action", "- action">>}

Notes == {"", "plans"}

\* lines 936-953: step 6 with "Generate Final Evaluation Report"
GenerateReport ==
  /\ current_step = 6
  /\ \E notes \in Notes, actions \in IdentifiedActions :
       LET noted == [eval_data EXCEPT !["additional_notes"] = notes]
           scored == calculate_evaluation_scores(noted)
       IN /\ ret' = scored
          /\ IF scored.status = "ok"
             THEN /\ eval_data' = [noted EXCEPT !["target_scores"] = scored.scores,
                                               !["overall_score"] = scored.overall,
                                               !["rating"] = scored.rating,
                                               !["other_positive_actions"] = actions]
                  /\ report_text' = Str("report")
                  /\ current_step' = 7
                  /\ run' = ToolRun("generate")
             ELSE /\ eval_data' = noted
                  /\ report_text' = report_text
                  /\ current_step' = current_step
                  /\ run' = Ended(scored.status, "generate")
  /\ UNCHANGED <<calls, pdf_extracted_text, extracted_raw, chat, uploaded_pdf, extracted_data>>

\* lines 936-941 and 955-960: step 6 with "Back"
BackFromNotes ==
  /\ current_step = 6
  /\ \E notes \in Notes : eval_data' = [eval_data EXCEPT !["additional_notes"] = notes]
  /\ current_step' = IF extracted_data # NoData THEN 1 ELSE 5
  /\ run' = IF extracted_data # NoData THEN ToolRun("back") ELSE ToolRerun("back")
  /\ UNCHANGED <<calls, report_text, pdf_extracted_text, extracted_raw, ret, chat, uploaded_pdf, extracted_data>>

\* lines 723-729: "Start Manual Input" on the home page
StartManual ==
  /\ current_step = 0
  /\ \E penalties \in YesOrNo, industry \in PickedIndustries :
       eval_data' = [eval_data EXCEPT !["company_name"] = "Acme",
                                      !["industry"] = industry,
                                      !["third_party"] = [penalties |-> penalties]]
  /\ current_step' = 2
  /\ run' = ToolRerun("start_manual")
  /\ UNCHANGED <<calls, report_text, pdf_extracted_text, extracted_raw, ret, chat,
                 uploaded_pdf, extracted_data>>

NumberInput(group, field) ==
  [group |-> group, field |-> field, kind |-> "number", index_if_set |-> 0]

\* st.radio(["Yes", "No"], index = index_if_set if stored else the other)
Radio(group, field, index_if_set) ==
  [group |-> group, field |-> field, kind |-> "radio", index_if_set |-> index_if_set]

\* lines 745-778, 796-823, 841-874, 892-916: the widgets of the manual steps
StepWidgets ==
  2 :> {NumberInput("12_2", "renewable_share"), Radio("12_2", "energy_retrofit", 0),
        Radio("12_2", "energy_increase", 1), NumberInput("12_2", "recycled_water_ratio"),
        NumberInput("12_2", "recycled_materials_pct"), Radio("12_2", "ghg_disclosure", 0)}
  @@ 3 :> {Radio("12_3_4", "loss_tracking_system", 0),
           NumberInput("12_3_4", "loss_reduction_pct"),
           Radio("12_3_4", "mrsl_zdhc_compliance", 0),
           NumberInput("12_3_4", "hazardous_recovery_pct")}
  @@ 4 :> {NumberInput("12_5_6", "packaging_reduction_pct"),
           NumberInput("12_5_6", "recycling_rate_pct"),
           NumberInput("12_5_6", "sustainable_products_pct"),
           Radio("12_5_6", "emission_plans", 0),
           Radio("12_5_6", "annual_progress_disclosed", 0)}
  @@ 5 :> {NumberInput("12_7", "esg_audited_suppliers_pct"),
           Radio("12_7", "supply_chain_transparency", 0),
           Radio("12_7", "price_only_procurement", 1)}

ManualSteps == DOMAIN StepWidgets

\* what a widget of a manual step returns when the user has not touched it:
\* a number input its value (stored or 0), a radio whether its index is "Yes"
WidgetReturns(w, stored) ==
  IF w.kind = "number" THEN (IF Truthy(stored) THEN stored ELSE Num(0))
  ELSE Bool((IF Truthy(stored) THEN w.index_if_set ELSE 1 - w.index_if_set) = 0)

\* eval_data after the assignments of one drawing of a manual step; edits
\* holds the values of the widgets the user has set
DrawStep(step, ed, edits) ==
  [g \in DOMAIN ed |->
     IF \E w \in StepWidgets[step] : w.group = g
     THEN [f \in DOMAIN ed[g] |->
             IF \E w \in StepWidgets[step] : w.group = g /\ w.field = f
             THEN IF f \in DOMAIN edits THEN edits[f]
                  ELSE WidgetReturns(CHOOSE w \in StepWidgets[step] :
                                        w.group = g /\ w.field = f, ed[g][f])
             ELSE ed[g][f]]
     ELSE ed[g]]

\* what the user sets on a manual step in the runs followed here
StepEdits(step) ==
  CASE step = 2 -> {("renewable_share" :> Num(20))}
    [] step = 5 -> {("esg_audited_suppliers_pct" :> Num(80))}
    [] OTHER -> {}

\* lines 1099-1117 after st.rerun(): the manual step of current_step is drawn
DrawAfterRerun ==
  /\ current_step \in ManualSteps
  /\ run.ended = "rerun"
  /\ eval_data' = DrawStep(current_step, eval_data, NoData)
  /\ run' = ToolRun(run.on)
  /\ UNCHANGED <<calls, report_text, pdf_extracted_text, extracted_raw, ret, chat,
                 uploaded_pdf, extracted_data, current_step>>

\* the run after the user sets a widget of a manual step: no button is pressed
EditStep ==
  /\ current_step \in ManualSteps
  /\ run.ended = "idle"
  /\ \E edits \in StepEdits(current_step) :
       eval_data' = DrawStep(current_step, eval_data, edits)
  /\ run' = ToolRun("edit")
  /\ UNCHANGED <<calls, report_text, pdf_extracted_text, extracted_raw, ret, chat,
                 uploaded_pdf, extracted_data, current_step>>

\* lines 785-788, 831-834, 882-885, 924-927: "Proceed to ..." on a manual step
ProceedStep ==
  /\ current_step \in ManualSteps
  /\ run.ended = "idle"
  /\ eval_data' = DrawStep(current_step, eval_data, NoData)
  /\ current_step' = current_step + 1
  /\ run' = IF current_step = 5 THEN ToolRun("proceed_step5") ELSE ToolRerun("proceed")
  /\ UNCHANGED <<calls, report_text, pdf_extracted_text, extracted_raw, ret, chat,
                 uploaded_pdf, extracted_data>>

\* lines 780-783, 826-829, 877-880, 919-922: "Back ..." on a manual step
BackStep ==
  /\ current_step \in ManualSteps
  /\ run.ended = "idle"
  /\ eval_data' = DrawStep(current_step, eval_data, NoData)
  /\ current_step' = IF current_step = 2 THEN 0 ELSE current_step - 1
  /\ run' = IF current_step = 2 THEN ToolRun("back_step2") ELSE ToolRerun("back_step")
  /\ UNCHANGED <<calls, report_text, pdf_extracted_text, extracted_raw, ret, chat,
                 uploaded_pdf, extracted_data>>

\* lines 1086-1092: the eval_data that "Start New Evaluation" stores
NewEvalData ==
  EvalData([penalties |-> F],
           Group12_2(None, F, F, F, None, F, None, F),
           Group12_3_4(F, None, F, F, None, F),
           Group12_5_6(None, None, None, F, F, F, F, F),
           Group12_7(None, F, F),
           <<"">>)

\* a session key that survives the button: no st.session_state.clear()
AfterClear_Kept(stored, initial) == stored

\* line 1085 and lines 306-313: st.session_state.clear() drops the stored
\* value of a key, and the next run stores the initial one where it has one
AfterClear(stored, initial) == initial

\* lines 1084-1096 and, in the run that st.rerun() starts, lines 276-313:
\* "Start New Evaluation" clears the session, stores eval_data and the step,
\* and the next run sets the keys that are missing
StartNewEvaluation ==
  /\ current_step = 7
  /\ eval_data' = NewEvalData
  /\ current_step' = 0
  /\ pdf_extracted_text' = AfterClear(pdf_extracted_text, "")
  /\ extracted_data' = AfterClear(extracted_data, NoData)
  /\ report_text' = AfterClear(report_text, NoReport)
  /\ extracted_raw' = NoData
  /\ ret' = NoCall
  /\ run' = ToolRun("new_eval")
  /\ UNCHANGED <<calls, chat, uploaded_pdf>>

InitTool ==
  /\ eval_data = InitialEvalData
  /\ ret = NoCall
  /\ current_step = 0
  /\ extracted_data = NoData
  /\ extracted_raw = NoData
  /\ pdf_extracted_text = ""
  /\ report_text = NoReport
  /\ calls = NoCalls
  /\ run = ToolRun("load")
  /\ chat = InitialChat
  /\ uploaded_pdf = FALSE

NextTool ==
  \/ ExtractData \/ ConfirmData \/ ReExtract \/ GenerateReport \/ BackFromNotes
  \/ StartManual \/ DrawAfterRerun \/ EditStep \/ ProceedStep \/ BackStep
  \/ StartNewEvaluation

SpecTool == InitTool /\ [][NextTool]_vars

---------------------------------------------------------------------------
(* tool.py: calls of calculate_evaluation_scores running side by side *)

\* line 413: the frame of a call, with its own scores dict at 0
Frame(ed) ==
  [eval_data |-> ed, pc |-> 1, scores |-> [g \in MetricGroups |-> 0], result |-> NoCall]

AtCaps == Len(GroupOrder) + 1
AtReturn == AtCaps + 1
Returned == AtReturn + 1

\* the scores dict that the name "scores" stands for in call c, read from the
\* first frame: one dict shared by every call
ScoresOf_Shared(cs, c) == cs[1].scores

\* the scores dict that the name "scores" stands for in call c: its own local
ScoresOf(cs, c) == cs[c].scores

\* lines 416-491: one loop of the call adds the points of its group
ScoreGroupStep ==
  \E c \in DOMAIN calls :
  /\ calls[c].pc \in DOMAIN GroupOrder
  /\ LET g == GroupOrder[calls[c].pc]
         scores == ScoresOf(calls, c)
         ed == calls[c].eval_data
     IN calls' = [calls EXCEPT
                    ![c].scores = [scores EXCEPT ![g] =
                                     IF g = "Others" THEN OthersScore(ed)
                                     ELSE @ + RawScore(g, ed)],
                    ![c].pc = @ + 1]
  /\ UNCHANGED <<eval_data, ret, chat, uploaded_pdf, run, current_step, extracted_data,
                 extracted_raw, pdf_extracted_text, report_text>>

\* lines 494-495: the caps and floors
CapStep ==
  \E c \in DOMAIN calls :
  /\ calls[c].pc = AtCaps
  /\ calls' = [calls EXCEPT
                 ![c].scores = [g \in MetricGroups |-> CapFloor(g, ScoresOf(calls, c)[g])],
                 ![c].pc = @ + 1]
  /\ UNCHANGED <<eval_data, ret, chat, uploaded_pdf, run, current_step, extracted_data,
                 extracted_raw, pdf_extracted_text, report_text>>

\* lines 498-504: the overall score, the rating and the return
ReturnStep ==
  \E c \in DOMAIN calls :
  /\ calls[c].pc = AtReturn
  /\ LET scores == ScoresOf(calls, c)
         overall == SumSeq([i \in DOMAIN GroupOrder |-> scores[GroupOrder[i]]])
     IN calls' = [calls EXCEPT
                    ![c].result = [status |-> "ok", scores |-> scores,
                                   overall |-> overall, rating |-> RatingOf(overall)],
                    ![c].pc = @ + 1]
  /\ UNCHANGED <<eval_data, ret, chat, uploaded_pdf, run, current_step, extracted_data,
                 extracted_raw, pdf_extracted_text, report_text>>

\* the records scored side by side
ConcurrentRecords == {InitialEvalData, ZeroEvalData, ProfileMid, ProfileMax}

\* two calls under way on different records
InitConcurrent ==
  /\ \E a \in ConcurrentRecords :
        \E b \in ConcurrentRecords \ {a} : calls = <<Frame(a), Frame(b)>>
  /\ eval_data = InitialEvalData
  /\ ret = NoCall
  /\ chat = InitialChat
  /\ uploaded_pdf = FALSE
  /\ run = Ended("idle", "load")
  /\ current_step = 0
  /\ extracted_data = NoData
  /\ extracted_raw = NoData
  /\ pdf_extracted_text = ""
  /\ report_text = NoReport

NextConcurrent == ScoreGroupStep \/ CapStep \/ ReturnStep

SpecConcurrent == InitConcurrent /\ [][NextConcurrent]_vars

---------------------------------------------------------------------------
(* Claims *)

\* calculate_evaluation_scores has returned or raised
Evaluated == ret # NoCall

\* calculate_score has returned or raised
ScoreRan == run.on = "calculate_score" /\ run.ended # "idle"

ThemeNames == {THEMES[i].name : i \in DOMAIN THEMES}

\* the session record has the keys of the initial session state, and every
\* indicator is a non-negative number or a boolean
HasInitialShape(data) ==
  /\ DOMAIN data = DOMAIN InitialData
  /\ \A i \in DOMAIN THEMES :
       /\ DOMAIN data[SessionKeys[i]] = DOMAIN InitialData[SessionKeys[i]]
       /\ \A j \in DOMAIN THEMES[i].metrics :
            LET v == data[SessionKeys[i]][THEMES[i].metrics[j].key]
            IN (v.t = "num" /\ v.n >= 0) \/ v.t = "bool"

\* every indicator the rules read is there; a percentage is None or an integer
\* in 0..100, a yes/no indicator is a boolean
WellTypedEval(ed) ==
  /\ \A g \in DOMAIN METRIC_CRITERIA : \A i \in DOMAIN METRIC_CRITERIA[g] :
       LET r == METRIC_CRITERIA[g][i] IN
         IF r.field = "penalties"
         THEN ed["third_party"]["penalties"].t = "bool"
         ELSE /\ HasKey(ed[GroupKey(g)], r.field)
              /\ LET v == ed[GroupKey(g)][r.field] IN
                   IF HasPercent(r.threshold)
                   THEN v.t = "none" \/ (v.t = "num" /\ v.n \in 0..100)
                   ELSE v.t = "bool"

\* C1: calculate_score, run on a session record that has the shape of the
\* initial session state, completes without raising and stores a breakdown
\* entry for each of the three themes together with a total_score.
C1_ScoreCompletes ==
  (ScoreRan /\ HasInitialShape(chat.data)) =>
     /\ run.ended = "ok"
     /\ DOMAIN chat.data[KeyBreakdown] = ThemeNames
     /\ HasKey(chat.data, KeyTotalScore)

\* C2: for every well-typed eval_data, for either value of the third-party
\* penalties flag and any other_positive_actions text, every metric group's
\* score is within 0..METRIC_MAX_SCORES[group] and the overall score is
\* within 0..100.
C2_ScoresInBounds ==
  (Evaluated /\ WellTypedEval(eval_data)) =>
     /\ ret.status = "ok"
     /\ \A g \in MetricGroups :
          0 <= ret.scores[g] /\ ret.scores[g] <= METRIC_MAX_SCORES[g]
     /\ 0 <= ret.overall /\ ret.overall <= 100

\* a scored record in which one group's rules sum below zero, another group
\* stands at its maximum, and the penalties flag is set
C2_Witness ==
  /\ Evaluated /\ WellTypedEval(eval_data)
  /\ \E g \in DOMAIN METRIC_CRITERIA : RawScore(g, eval_data) < 0 /\ ret.scores[g] = 0
  /\ \E g \in MetricGroups : ret.scores[g] = METRIC_MAX_SCORES[g]

\* the rules of a group that fire, by the sign of their points
FiringRules(g, ed) ==
  {i \in DOMAIN METRIC_CRITERIA[g] : RuleFires(g, ed, METRIC_CRITERIA[g][i])}

OnlyPenaltiesFire(g, ed) ==
  /\ FiringRules(g, ed) # {}
  /\ \A i \in FiringRules(g, ed) : METRIC_CRITERIA[g][i].points < 0

SumOver(scores, groups) ==
  SumSeq([i \in DOMAIN GroupOrder |->
            IF GroupOrder[i] \in groups THEN scores[GroupOrder[i]] ELSE 0])

\* C3: a metric group in which only penalty rules fire gets the score exactly
\* 0, never a negative number, and the overall score is not lowered below the
\* sum of the other groups' scores.
C3_PenaltyFloor ==
  (Evaluated /\ WellTypedEval(eval_data)) =>
     \A g \in DOMAIN METRIC_CRITERIA :
        OnlyPenaltiesFire(g, eval_data) =>
           /\ ret.scores[g] = 0
           /\ ret.overall >= SumOver(ret.scores, MetricGroups \ {g})

\* 12.2 with illegal_logging alone, which sums to -7, beside groups that score
C3_Witness ==
  /\ Evaluated /\ WellTypedEval(eval_data)
  /\ OnlyPenaltiesFire("12.2", eval_data)
  /\ Truthy(eval_data["12_2"]["illegal_logging"])
  /\ RawScore("12.2", eval_data) = -7
  /\ ret.scores["12.2"] = 0
  /\ ret.overall > 0

\* an indicator is missing from a group: its key is absent, or its value is None
MissingIn(d, f) == ~HasKey(d, f) \/ d[f] = None

\* the zero value of an eval_data indicator: 0 for a percentage, false for a flag
ZeroOfField(group, f) ==
  IF \E g \in DOMAIN METRIC_CRITERIA : \E i \in DOMAIN METRIC_CRITERIA[g] :
        /\ GroupKey(g) = group
        /\ METRIC_CRITERIA[g][i].field = f
        /\ HasPercent(METRIC_CRITERIA[g][i].threshold)
  THEN Num(0) ELSE F

\* a dict with one key set, whether or not it was there
WithKey(d, k, v) == [x \in (DOMAIN d) \cup {k} |-> IF x = k THEN v ELSE d[x]]

ZeroFilledEval(ed, group, f) ==
  [ed EXCEPT ![group] = WithKey(@, f, ZeroOfField(group, f))]

ZeroFilledData(data, k, metric) ==
  [data EXCEPT ![k] = WithKey(@, metric.key, LeastValue(metric))]

\* C4: for every indicator that the scoring rules read, scoring a record in
\* which that indicator is missing (key absent, or value None) completes
\* without raising and yields the same per-dimension scores and the same
\* overall score as scoring the record with the indicator set to its zero
\* value; for calculate_evaluation_scores and for calculate_score.
C4_MissingIsZero ==
  /\ Evaluated =>
       \A group \in EvalGroups : \A f \in RuleFields(group) :
          MissingIn(eval_data[group], f) =>
             /\ ret.status = "ok"
             /\ LET zero == calculate_evaluation_scores(ZeroFilledEval(eval_data, group, f))
                IN /\ zero.status = "ok"
                   /\ ret.scores = zero.scores
                   /\ ret.overall = zero.overall
  /\ ScoreRan =>
       \A i \in DOMAIN THEMES :
          \A k \in {SessionKeys[i], ThemeKey(THEMES[i].name)} \cap DOMAIN chat.data :
             \A j \in DOMAIN THEMES[i].metrics :
                MissingIn(chat.data[k], THEMES[i].metrics[j].key) =>
                   /\ run.ended = "ok"
                   /\ LET zero == calculate_score(ZeroFilledData(chat.data, k, THEMES[i].metrics[j]))
                      IN /\ zero.ended = "ok"
                         /\ chat.data[KeyBreakdown] = zero.data[KeyBreakdown]
                         /\ chat.data[KeyTotalScore] = zero.data[KeyTotalScore]

\* the run that took the last input of a flow: round 4 of the manual flow, or
\* the extra details of the upload flow
InputCompleted == run.on \in {"circular", "extra"}

\* C5: a user who completes the input, by answering all four manual rounds
\* or, after a PDF upload, by giving the industry and then the extra details,
\* eventually reaches the completed state in which a total score and a
\* per-theme breakdown are shown.
C5_EventuallyCompleted ==
  InputCompleted ~>
     (chat.completed /\ DOMAIN chat.data[KeyBreakdown] = ThemeNames)

\* the value that a rule of METRIC_CRITERIA reads
RuleValue(g, ed, rule) ==
  IF g = "12.4" /\ rule.field = "penalties" THEN ed["third_party"]["penalties"]
  ELSE ed[GroupKey(g)][rule.field]

WithRuleValue(g, ed, rule, v) ==
  IF g = "12.4" /\ rule.field = "penalties"
  THEN [ed EXCEPT !["third_party"]["penalties"] = v]
  ELSE [ed EXCEPT ![GroupKey(g)][rule.field] = v]

IsPenaltiesRule(g, rule) == g = "12.4" /\ rule.field = "penalties"

\* the values above v that a rule's indicator can be raised to: a higher
\* percentage, or true for the false flag of a positive-point boolean rule
RaisedValues(rule, v) ==
  IF HasPercent(rule.threshold)
  THEN IF v.t = "num"
       THEN {w \in PctSamples(rule.threshold) : w.t = "num" /\ w.n > v.n}
       ELSE {}
  ELSE IF rule.points > 0 /\ v = F THEN {T} ELSE {}

\* raising one indicator of a scored record lowers neither its rule's points,
\* nor any group's score, nor the overall score
RaiseNeverLowers(g, rule, w) ==
  LET raised == WithRuleValue(g, eval_data, rule, w)
      again == calculate_evaluation_scores(raised)
  IN /\ again.status = "ok"
     /\ RulePoints(g, raised, rule) >= RulePoints(g, eval_data, rule)
     /\ \A h \in MetricGroups : again.scores[h] >= ret.scores[h]
     /\ again.overall >= ret.overall

\* the values above x that a metric of THEMES can be raised to
RaisedMetricValues(metric, x) ==
  IF metric.kind = "flag"
  THEN (IF x = F THEN {T} ELSE {})
  ELSE IF x.t = "num"
       THEN {w \in MetricSamples(metric) : w.t = "num" /\ w.n > x.n}
       ELSE {}

\* the groups of the session record that hold the indicators of theme i
GroupsOf(i) == {SessionKeys[i], ThemeKey(THEMES[i].name)} \cap DOMAIN chat.data

\* the same for the rules of THEMES: the points of a rule for the indicators
\* of the session that calculate_score ran on, and the scores that it stored
ThemeRaiseNeverLowers ==
  ScoreRan =>
     \A i \in DOMAIN THEMES : \A j \in DOMAIN THEMES[i].metrics :
        LET metric == THEMES[i].metrics[j] IN
          /\ \A k \in GroupsOf(i) :
               HasKey(chat.data[k], metric.key) =>
                  \A w \in RaisedMetricValues(metric, chat.data[k][metric.key]) :
                     Calc(metric, w) >= Calc(metric, chat.data[k][metric.key])
          /\ run.ended = "ok" =>
               LET k == ThemeKey(THEMES[i].name) IN
                 \A w \in RaisedMetricValues(metric, chat.data[k][metric.key]) :
                    LET again == calculate_score([chat.data EXCEPT ![k][metric.key] = w])
                    IN /\ again.ended = "ok"
                       /\ \A n \in ThemeNames :
                            again.data[KeyBreakdown][n].score
                              >= chat.data[KeyBreakdown][n].score
                       /\ again.data[KeyTotalScore] >= chat.data[KeyTotalScore]

\* C6, as stated: holding every other input fixed, raising one percentage or
\* count indicator, or switching one positive-point boolean indicator (the
\* third-party penalties flag of the +3 rule of 12.4 among them) from false
\* to true, never lowers the points of that indicator's rule, its group's
\* score or the overall score; for THEMES and for calculate_evaluation_scores.
C6_MonotoneEveryRule ==
  /\ (Evaluated /\ ret.status = "ok") =>
        \A g \in DOMAIN METRIC_CRITERIA : \A i \in DOMAIN METRIC_CRITERIA[g] :
           LET rule == METRIC_CRITERIA[g][i] IN
             \A w \in RaisedValues(rule, RuleValue(g, eval_data, rule)) :
                RaiseNeverLowers(g, rule, w)
  /\ ThemeRaiseNeverLowers

\* C6, amended: the same for every percentage or count indicator and every
\* positive-point boolean indicator of the metric groups; the third-party
\* penalties flag is the exception, switching it from false to true never
\* raises a score.
C6_Monotone ==
  /\ (Evaluated /\ ret.status = "ok") =>
        \A g \in DOMAIN METRIC_CRITERIA : \A i \in DOMAIN METRIC_CRITERIA[g] :
           LET rule == METRIC_CRITERIA[g][i]
               v == RuleValue(g, eval_data, rule)
           IN IF IsPenaltiesRule(g, rule)
              THEN v = F =>
                     LET again == calculate_evaluation_scores(
                                     WithRuleValue(g, eval_data, rule, T))
                     IN /\ \A h \in MetricGroups : again.scores[h] <= ret.scores[h]
                        /\ again.overall <= ret.overall
              ELSE \A w \in RaisedValues(rule, v) : RaiseNeverLowers(g, rule, w)
  /\ ThemeRaiseNeverLowers

\* a scored record in which raising a percentage to its threshold gains the
\* rule's points, the group's score and the overall score
C6_Witness ==
  /\ Evaluated /\ ret.status = "ok"
  /\ \E g \in DOMAIN METRIC_CRITERIA : \E i \in DOMAIN METRIC_CRITERIA[g] :
        LET rule == METRIC_CRITERIA[g][i]
            v == RuleValue(g, eval_data, rule)
        IN /\ HasPercent(rule.threshold)
           /\ \E w \in RaisedValues(rule, v) :
                 LET raised == WithRuleValue(g, eval_data, rule, w)
                 IN /\ RulePoints(g, raised, rule) > RulePoints(g, eval_data, rule)
                    /\ calculate_evaluation_scores(raised).overall > ret.overall
  /\ eval_data["third_party"]["penalties"] = F
  /\ calculate_evaluation_scores(
        [eval_data EXCEPT !["third_party"]["penalties"] = T]).overall < ret.overall

IsBooleanRule(rule) == ~HasPercent(rule.threshold)

AddsIffTrue(g, rule) ==
  LET v == RuleValue(g, eval_data, rule) IN
    /\ RulePoints(g, eval_data, rule) = (IF v = T THEN rule.points ELSE 0)
    /\ RawScore(g, WithRuleValue(g, eval_data, rule, T))
         = RawScore(g, WithRuleValue(g, eval_data, rule, F)) + rule.points

AddsIffFalse(g, rule) ==
  LET v == RuleValue(g, eval_data, rule) IN
    /\ RulePoints(g, eval_data, rule) = (IF v = F THEN rule.points ELSE 0)
    /\ RawScore(g, WithRuleValue(g, eval_data, rule, F))
         = RawScore(g, WithRuleValue(g, eval_data, rule, T)) + rule.points

\* C7, as stated: every boolean rule of METRIC_CRITERIA, the penalty rules and
\* the 12.4 'penalties' rule included, adds its fixed points to its group's
\* unclamped sum if and only if its boolean value is true, and 0 when false.
C7_EveryBooleanRuleOnTrue ==
  (Evaluated /\ WellTypedEval(eval_data)) =>
     \A g \in DOMAIN METRIC_CRITERIA : \A i \in DOMAIN METRIC_CRITERIA[g] :
        IsBooleanRule(METRIC_CRITERIA[g][i]) => AddsIffTrue(g, METRIC_CRITERIA[g][i])

\* C7, amended: every boolean rule of METRIC_CRITERIA read from a metric
\* group, the penalty rules included, adds its fixed points if and only if
\* its value is true; the 12.4 'penalties' rule adds its 3 points if and only
\* if third_party.penalties is false.
C7_BooleanRules ==
  (Evaluated /\ WellTypedEval(eval_data)) =>
     \A g \in DOMAIN METRIC_CRITERIA : \A i \in DOMAIN METRIC_CRITERIA[g] :
        LET rule == METRIC_CRITERIA[g][i] IN
          IsBooleanRule(rule) =>
             IF IsPenaltiesRule(g, rule) THEN AddsIffFalse(g, rule)
             ELSE AddsIffTrue(g, rule)

\* a scored record with penalties reported and a penalty rule of 12.4 firing:
\* the +3 is withheld and the -3 is added
C7_Witness ==
  /\ Evaluated /\ WellTypedEval(eval_data)
  /\ eval_data["third_party"]["penalties"] = T
  /\ eval_data["12_3_4"]["illegal_disposal"] = T
  /\ eval_data["12_3_4"]["mrsl_zdhc_compliance"] = T
  /\ RawScore("12.4", eval_data) = 2
  /\ ret.scores["12.4"] = 2

\* the points of the highest threshold that x meets, 0 when it meets none
TierTable(metric) == {<<metric.hi, 10>>, <<metric.lo, 5>>}

TiersMet(metric, x) == {p \in TierTable(metric) : x >= p[1]}

HighestTierPoints(metric, x) ==
  IF TiersMet(metric, x) = {} THEN 0
  ELSE (CHOOSE p \in TiersMet(metric, x) : \A q \in TiersMet(metric, x) : q[1] <= p[1])[2]

\* the indicators of theme i that calculate_score read
GroupRead(i) == chat.data[ThemeKey(THEMES[i].name)]

\* the points of the rules of theme i, the tiered ones by the tier table
PointsByTier(i, j) ==
  LET metric == THEMES[i].metrics[j]
      x == GroupRead(i)[metric.key]
  IN IF metric.kind = "tiers" THEN HighestTierPoints(metric, x.n) ELSE Calc(metric, x)

\* C8: each two-tier percentage rule of THEMES awards the points of the
\* highest threshold that the value meets or exceeds: 10 at or above the upper
\* threshold, 5 at or above the lower and below the upper, 0 below both; a
\* value equal to a threshold earns that tier, and never the points of two.
C8_HighestTierWins ==
  ScoreRan =>
     \A i \in DOMAIN THEMES :
        /\ \A j \in DOMAIN THEMES[i].metrics : \A k \in GroupsOf(i) :
             LET metric == THEMES[i].metrics[j] IN
               (/\ metric.kind = "tiers"
                /\ HasKey(chat.data[k], metric.key)
                /\ chat.data[k][metric.key].t = "num") =>
                  LET x == chat.data[k][metric.key] IN
                    /\ Calc(metric, x) = HighestTierPoints(metric, x.n)
                    /\ Calc(metric, x) = (IF x.n >= metric.hi THEN 10
                                          ELSE IF x.n >= metric.lo THEN 5 ELSE 0)
        /\ run.ended = "ok" =>
             chat.data[KeyBreakdown][THEMES[i].name].score =
               Round1(SumSeq([j \in DOMAIN THEMES[i].metrics |-> PointsByTier(i, j)])
                      * THEMES[i].weight)

\* a scored session with one percentage exactly at its upper threshold and
\* another exactly at its lower one: 10 + 5 points, 4.5 weighted
C8_Witness ==
  /\ ScoreRan /\ run.ended = "ok"
  /\ GroupRead(1)["renewable_energy_pct"] = Num(50)
  /\ GroupRead(1)["water_reuse_pct"] = Num(40)
  /\ GroupRead(1)["energy_saving_tech"] = Num(0)
  /\ chat.data[KeyBreakdown][THEMES[1].name].score = 45

\* the rating bands by their lower bounds
Bands == {<<0, RatingSevere>>, <<40, RatingHigh>>, <<60, RatingModerate>>, <<75, RatingLow>>}

BandsAtOrBelow(overall) == {b \in Bands : b[1] <= overall}

BandOf(overall) ==
  CHOOSE b \in BandsAtOrBelow(overall) : \A c \in BandsAtOrBelow(overall) : c[1] <= b[1]

LowerBoundOf(rating) == (CHOOSE b \in Bands : b[2] = rating)[1]

\* C9: the rating is the band whose lower bound is the greatest one not above
\* the overall score, with lower bounds 0, 40, 60 and 75: every overall score
\* in 0..100 gets exactly one of the four labels, 40, 60 and 75 fall in the
\* higher of the adjacent bands, 100 in the top band, and a higher score
\* never gets a lower band.
C9_RatingBand ==
  (Evaluated /\ ret.status = "ok") =>
     /\ ret.overall \in 0..100
     /\ ret.rating \in {b[2] : b \in Bands}
     /\ ret.rating = BandOf(ret.overall)[2]
     /\ \A lower \in 0..ret.overall :
          LowerBoundOf(RatingOf(lower)) <= LowerBoundOf(ret.rating)

\* a record that scores exactly 75 overall and is rated in the top band
C9_Witness ==
  /\ Evaluated /\ ret.status = "ok"
  /\ ret.overall = 75
  /\ ret.rating = RatingLow

\* C10: for each theme, calculate_score reports score = round(raw * weight, 1)
\* and max = round(max_score * weight, 1), where raw is the sum of the points
\* of the theme's rules, and it sets total_score = min(100, round(sum of the
\* three weighted scores, 1)).
C10_WeightedScores ==
  ScoreRan =>
     /\ run.ended = "ok"
     /\ \A i \in DOMAIN THEMES :
          LET theme == THEMES[i]
              k == IF HasKey(chat.data, ThemeKey(theme.name))
                   THEN ThemeKey(theme.name) ELSE SessionKeys[i]
              raw == SumSeq([j \in DOMAIN theme.metrics |->
                               Calc(theme.metrics[j], chat.data[k][theme.metrics[j].key])])
          IN /\ HasKey(chat.data[KeyBreakdown], theme.name)
             /\ chat.data[KeyBreakdown][theme.name].score = Round1(raw * theme.weight)
             /\ chat.data[KeyBreakdown][theme.name].max = Round1(theme.max_score * theme.weight)
     /\ chat.data[KeyTotalScore] =
          Min(1000, Round1(10 * SumSeq([i \in DOMAIN THEMES |->
                                   chat.data[KeyBreakdown][THEMES[i].name].score])))

\* the groups of the session record that hold theme 1's indicators with
\* renewable_energy_pct = 55, water_reuse_pct = 45 and no energy-saving count
ReportsScenario(k) ==
  /\ k \in GroupsOf(1)
  /\ chat.data[k] = ScenarioGroups[1]

\* C11: for the resource-efficiency dimension (weight 0.3) with
\* renewable_energy_pct = 55, water_reuse_pct = 45 and no other contribution,
\* scoring gives raw subtotal 10 + 5 = 15, weighted score 4.5 and maximum
\* weighted score 6.0.
C11_ResourceScenario ==
  (ScoreRan /\ \E k \in GroupsOf(1) :
                  /\ ReportsScenario(k)
                  /\ (HasKey(chat.data, ThemeKey(THEMES[1].name)) => k = ThemeKey(THEMES[1].name)))
    =>
     /\ run.ended = "ok"
     /\ HasKey(chat.data[KeyBreakdown], THEMES[1].name)
     /\ ThemeRaw(THEMES[1], ScenarioGroups[1]) = 15
     /\ chat.data[KeyBreakdown][THEMES[1].name].score = 45
     /\ chat.data[KeyBreakdown][THEMES[1].name].max = 60

\* every indicator that the rules of METRIC_CRITERIA read is 0 or false, the
\* third-party penalties flag included, and no other action is listed
AllZeroEval(ed) ==
  /\ \A g \in DOMAIN METRIC_CRITERIA : \A i \in DOMAIN METRIC_CRITERIA[g] :
       LET rule == METRIC_CRITERIA[g][i] IN
         /\ IsPenaltiesRule(g, rule) \/ HasKey(ed[GroupKey(g)], rule.field)
         /\ RuleValue(g, ed, rule) \in {Num(0), F}
  /\ OthersScore(ed) = 0

\* every indicator of the three themes is 0 or false, in every group of the
\* session record that holds it
AllZeroData(data) ==
  \A i \in DOMAIN THEMES :
     \A k \in {SessionKeys[i], ThemeKey(THEMES[i].name)} \cap DOMAIN data :
        \A j \in DOMAIN THEMES[i].metrics :
           /\ HasKey(data[k], THEMES[i].metrics[j].key)
           /\ data[k][THEMES[i].metrics[j].key] = LeastValue(THEMES[i].metrics[j])

\* C12: a record in which every indicator has its zero value (0 for
\* percentages and counts, false for every boolean, the third-party penalties
\* flag included) scores 0 in every dimension and 0 overall, both with the
\* THEMES rules of chatbot.py and with calculate_evaluation_scores of tool.py.
C12_ZeroScoresZero ==
  /\ (Evaluated /\ AllZeroEval(eval_data)) =>
        /\ ret.status = "ok"
        /\ \A g \in MetricGroups : ret.scores[g] = 0
        /\ ret.overall = 0
  /\ (ScoreRan /\ AllZeroData(chat.data)) =>
        /\ run.ended = "ok"
        /\ \A n \in ThemeNames :
             HasKey(chat.data[KeyBreakdown], n) /\ chat.data[KeyBreakdown][n].score = 0
        /\ chat.data[KeyTotalScore] = 0

\* every positive rule of every group fires and no penalty rule does
EveryPositiveRuleFires(ed) ==
  \A g \in DOMAIN METRIC_CRITERIA : \A i \in DOMAIN METRIC_CRITERIA[g] :
     LET rule == METRIC_CRITERIA[g][i] IN
       /\ IsPenaltiesRule(g, rule) \/ HasKey(ed[GroupKey(g)], rule.field)
       /\ RuleFires(g, ed, rule) <=> rule.points > 0

NonEmptyLines(ed) ==
  Cardinality({i \in DOMAIN ed["other_positive_actions"] :
                 Strip(ed["other_positive_actions"][i]) # ""})

\* C13: when every metric group reaches its maximum (every positive rule
\* fires, no penalty rule fires, there is no third-party penalty, and
\* other_positive_actions has at least two non-empty lines),
\* calculate_evaluation_scores returns the overall score 100 and the top
\* rating band.
C13_MaximumIs100 ==
  (/\ Evaluated
   /\ EveryPositiveRuleFires(eval_data)
   /\ eval_data["third_party"]["penalties"] = F
   /\ NonEmptyLines(eval_data) >= 2) =>
     /\ ret.status = "ok"
     /\ \A g \in MetricGroups : ret.scores[g] = METRIC_MAX_SCORES[g]
     /\ ret.overall = 100
     /\ ret.rating = RatingLow

\* such a record, with a percentage exactly at its threshold and a blank line
\* among the listed actions
C13_Witness ==
  /\ Evaluated
  /\ EveryPositiveRuleFires(eval_data)
  /\ eval_data["third_party"]["penalties"] = F
  /\ NonEmptyLines(eval_data) = 2
  /\ Len(eval_data["other_positive_actions"]) = 3
  /\ ret.overall = 100

\* the group of the session record that holds theme i's indicators: the one
\* under the key that calculate_score reads where the record has it, the
\* session's own group otherwise
IndicatorGroup(data, i) ==
  IF HasKey(data, ThemeKey(THEMES[i].name)) THEN data[ThemeKey(THEMES[i].name)]
  ELSE data[SessionKeys[i]]

\* every rule of every theme awards its 10 points
EveryRuleAtMaximum(data) ==
  \A i \in DOMAIN THEMES : \A j \in DOMAIN THEMES[i].metrics :
     LET metric == THEMES[i].metrics[j] IN
       /\ HasKey(IndicatorGroup(data, i), metric.key)
       /\ ~CalcRaises(metric, IndicatorGroup(data, i)[metric.key])
       /\ Calc(metric, IndicatorGroup(data, i)[metric.key]) = 10

\* C14: in the chatbot scorer, a record on which every rule of every theme
\* awards its maximum points gets total_score 100, the top of the scale on
\* which the score is displayed ('/100').
C14_ThemeMaximumIs100 ==
  (ScoreRan /\ EveryRuleAtMaximum(chat.data)) =>
     /\ run.ended = "ok"
     /\ chat.data[KeyTotalScore] = 1000

\* C15: for any record, including values outside the expected domain such as
\* a negative count or a percentage above 100, the scorers produce no
\* dimension score below 0 or above the dimension's maximum and no overall
\* score outside 0..100; for the THEMES rules with calculate_score and for
\* calculate_evaluation_scores.
C15_ScoresStayInBounds ==
  /\ (Evaluated /\ ret.status = "ok") =>
        /\ \A g \in MetricGroups :
             0 <= ret.scores[g] /\ ret.scores[g] <= METRIC_MAX_SCORES[g]
        /\ 0 <= ret.overall /\ ret.overall <= 100
  /\ (ScoreRan /\ run.ended = "ok") =>
        /\ \A n \in ThemeNames :
             /\ 0 <= chat.data[KeyBreakdown][n].score
             /\ chat.data[KeyBreakdown][n].score <= chat.data[KeyBreakdown][n].max
        /\ 0 <= chat.data[KeyTotalScore] /\ chat.data[KeyTotalScore] <= 1000

\* C16: after 'Confirm Data & Proceed' on the PDF confirmation page, every
\* indicator that calculate_evaluation_scores reads holds a value that went
\* through the confirmation form and is well typed (an integer in 0..100 for
\* a percentage, a boolean for a yes/no indicator); no raw AI-extracted value
\* reaches scoring without having been shown for confirmation.
C16_ConfirmedAndTyped ==
  (run.on = "confirm") =>
     \A group \in EvalGroups : \A f \in RuleFields(group) :
        /\ f \in FormFields
        /\ HasKey(eval_data[group], f)
        /\ LET v == eval_data[group][f] IN
             IF ZeroOfField(group, f) = Num(0)
             THEN v.t = "num" /\ v.n \in 0..100
             ELSE v.t = "bool"

\* a step in which calculate_evaluation_scores is called
EvaluateStep == ret = NoCall /\ ret' # NoCall

\* a step in which calculate_score is called
ScoreStep == run = AtScore /\ run' # AtScore

\* C17: scoring never changes an indicator value: calculate_evaluation_scores
\* leaves its eval_data argument entirely unchanged, and calculate_score
\* changes only data['breakdown'] and data['total_score'], leaving company,
\* industry and every indicator of the three groups as they were.
C17_ScoringFrame ==
  [][ /\ EvaluateStep => eval_data' = eval_data
      /\ ScoreStep =>
           /\ DOMAIN chat'.data = DOMAIN chat.data
           /\ \A k \in DOMAIN chat.data \ {KeyBreakdown, KeyTotalScore} :
                chat'.data[k] = chat.data[k]
           /\ chat'.mode = chat.mode /\ chat'.completed = chat.completed ]_vars

\* a session that calculate_score scored: the breakdown and a total above 0
\* are stored, beside indicators that are not all zero
C17_Witness ==
  /\ ScoreRan /\ run.ended = "ok"
  /\ DOMAIN chat.data[KeyBreakdown] = ThemeNames
  /\ chat.data[KeyTotalScore] > 0
  /\ ~AllZeroData(chat.data)

\* the values an indicator of a rule is changed to: both ends of its scale
OtherValues(rule) == IF HasPercent(rule.threshold) THEN {Num(0), Num(100)} ELSE {F, T}

\* the records that differ from ed in one place, each with the groups that
\* score that place: an indicator of one rule, the action text, the industry
OneChange(ed) ==
  {[scoredBy |-> {x[1]},
    record |-> WithRuleValue(x[1], ed, METRIC_CRITERIA[x[1]][x[2]], x[3])] :
     x \in {y \in (DOMAIN METRIC_CRITERIA) \X (1..8) \X {F, T, Num(0), Num(100)} :
              /\ y[2] \in DOMAIN METRIC_CRITERIA[y[1]]
              /\ y[3] \in OtherValues(METRIC_CRITERIA[y[1]][y[2]])}}
  \cup {[scoredBy |-> {"Others"}, record |-> [ed EXCEPT !["other_positive_actions"] = a]] :
          a \in {<<>>, <<"- action", "- action">>}}
  \cup {[scoredBy |-> {}, record |-> [ed EXCEPT !["industry"] = "Tourism"]]}

\* C18: in calculate_evaluation_scores the score of a metric group depends
\* only on the indicators named in that group's own rules (12.4 also on
\* third_party.penalties, Others only on other_positive_actions): a record
\* that differs only in indicators scored by other groups gets the same score
\* for this group, so a penalty in one group never lowers another's score.
C18_GroupsIndependent ==
  (Evaluated /\ ret.status = "ok") =>
     \A change \in OneChange(eval_data) :
        LET r == calculate_evaluation_scores(change.record)
        IN /\ r.status = "ok"
           /\ \A g \in MetricGroups \ change.scoredBy : r.scores[g] = ret.scores[g]

\* a scored record in which a penalty rule fires in one group while another
\* group holds points, and taking the penalty away changes the first group
C18_Witness ==
  /\ Evaluated /\ ret.status = "ok"
  /\ \E h \in DOMAIN METRIC_CRITERIA : \E g \in MetricGroups \ {h} :
        /\ \E i \in FiringRules(h, eval_data) :
              /\ METRIC_CRITERIA[h][i].points < 0
              /\ calculate_evaluation_scores(
                   WithRuleValue(h, eval_data, METRIC_CRITERIA[h][i], F)).scores[h]
                 > ret.scores[h]
        /\ ret.scores[g] > 0

\* the overall score of a record under a given industry
OverallFor(ed, industry) ==
  calculate_evaluation_scores([ed EXCEPT !["industry"] = industry]).overall

\* the total of a session under a given industry
TotalFor(data, industry) ==
  calculate_score([data EXCEPT ![KeyIndustry] = industry]).data[KeyTotalScore]

\* C20: two records with identical indicators, one with industry 'Tourism' and
\* one with industry 'Manufacturing', get different overall scores, Tourism
\* activating an industry-conditional dimension not scored for Manufacturing.
C20_TourismScoresDiffer ==
  /\ (Evaluated /\ ret.status = "ok") =>
        /\ OverallFor(eval_data, eval_data["industry"]) = ret.overall
        /\ OverallFor(eval_data, "Tourism") # OverallFor(eval_data, "Manufacturing")
  /\ (ScoreRan /\ run.ended = "ok") =>
        TotalFor(chat.data, "Tourism") # TotalFor(chat.data, "Manufacturing")

\* C21: two evaluations of calculate_evaluation_scores that run side by side
\* on different records, in any interleaving of their steps, each return the
\* result they return when run alone; no state is shared between the calls.
C21_ConcurrentCallsAgree ==
  \A c \in DOMAIN calls :
     /\ calls[c].pc = Returned =>
          calls[c].result = calculate_evaluation_scores(calls[c].eval_data)
     /\ calls[c].pc = 1 => calls[c].scores = Frame(calls[c].eval_data).scores

\* one call has returned while the other, begun before, is in its loops, and
\* the two records score differently
C21_Witness ==
  /\ DOMAIN calls = {1, 2}
  /\ calls[1].pc = Returned
  /\ calls[2].pc \in 2..Len(GroupOrder)
  /\ calls[1].result.overall # calculate_evaluation_scores(calls[2].eval_data).overall

\* C22: whenever the report page (current_step 7) is shown, the stored
\* target_scores['Others'] equals min(10, 5 * the number of non-empty lines of
\* the stored other_positive_actions), and the stored overall_score equals the
\* overall score that calculate_evaluation_scores gives for the stored record.
C22_ReportMatchesData ==
  (current_step = 7) =>
     /\ eval_data["target_scores"]["Others"] = OthersScore(eval_data)
     /\ eval_data["overall_score"] = calculate_evaluation_scores(eval_data).overall

\* the upload flow is past the industry question: extra details are awaited,
\* or the extraction failed and the manual questions took over
PastIndustry ==
  \/ chat.mode = "upload_final"
  \/ chat.mode = "manual" /\ run.on = "upload_industry"

\* C23: in the chatbot, once the upload flow has reached the mode
\* 'upload_final' (or 'manual' after a failed extraction), the mode does not
\* go back to 'upload_industry' and the report text is not extracted again
\* unless the user uploads a new file; the PDF still present in the uploader
\* on later reruns does not restart the flow.
C23_NoRestartByStalePdf ==
  [][ (PastIndustry /\ uploaded_pdf /\ uploaded_pdf') =>
        (chat'.mode # "upload_industry" /\ chat'.pdf_text = chat.pdf_text) ]_vars

\* a run that draws a manual input step with no widget set by the user: the
\* drawing after st.rerun(), or the run of a navigation button
DrawsUntouched == current_step \in ManualSteps /\ run'.on # "edit"

\* C24: drawing a manual input step without the user changing any widget
\* leaves every stored boolean indicator as it was; in particular accepting
\* every default in steps 2 and 5 keeps energy_increase and
\* price_only_procurement false, so no penalty is applied unselected.
C24_DrawingKeepsFlags ==
  [][ DrawsUntouched =>
        \A g \in EvalGroups : \A f \in DOMAIN eval_data[g] :
           eval_data[g][f].t = "bool" => eval_data'[g][f] = eval_data[g][f] ]_vars

\* the step in which "Back" is pressed on step 6
BackPressedOnNotes == current_step = 6 /\ run'.on = "back"

\* C25: 'Back' on step 6 returns to the step from which step 6 was entered:
\* to step 5 when it was reached through the manual input steps, to step 1
\* when it was reached through the PDF confirmation page, whatever was done
\* earlier in the session.
C25_BackReturnsWhereItCameFrom ==
  [][ BackPressedOnNotes =>
        /\ run.on = "proceed_step5" => current_step' = 5
        /\ run.on = "confirm" => current_step' = 1 ]_vars

\* the number N written in a percentage threshold: its two digits
WrittenNumber(threshold) == 10 * DigitValue(threshold[2]) + DigitValue(threshold[3])

\* the comparison written in a percentage threshold, applied to a number
MeetsWritten(n, threshold) ==
  IF threshold[1] = ">" THEN n > WrittenNumber(threshold)
  ELSE n >= WrittenNumber(threshold)

PercentRules ==
  {<<g, i>> \in (DOMAIN METRIC_CRITERIA) \X (1..8) :
     i \in DOMAIN METRIC_CRITERIA[g] /\ HasPercent(METRIC_CRITERIA[g][i].threshold)}

\* C26: for every percentage rule of METRIC_CRITERIA the scoring applies the
\* comparison written in the rule's threshold text: 'at least N%' awards the
\* points iff value >= N, '>10%' (loss_reduction_pct) iff value > 10; exactly
\* 10 earns nothing there, exactly N earns the points in every other rule.
C26_ComparisonAsWritten ==
  (Evaluated /\ ret.status = "ok") =>
     \A r \in PercentRules :
        LET rule == METRIC_CRITERIA[r[1]][r[2]]
            v == eval_data[GroupKey(r[1])][rule.field]
        IN /\ v.t = "num" =>
                RulePoints(r[1], eval_data, rule) =
                   IF MeetsWritten(v.n, rule.threshold) THEN rule.points ELSE 0
           /\ (v.t = "num" /\ v.n = WrittenNumber(rule.threshold)) =>
                (RuleFires(r[1], eval_data, rule) <=> rule.field # "loss_reduction_pct")

\* a scored record with loss_reduction_pct at exactly 10 and the hazardous
\* waste recovery of the same group at exactly its 90
C26_Witness ==
  /\ Evaluated /\ ret.status = "ok"
  /\ eval_data["12_3_4"]["loss_reduction_pct"] = Num(10)
  /\ eval_data["12_3_4"]["hazardous_recovery_pct"] = Num(90)
  /\ ret.scores["12.4"] >= 5

\* the most that one rule of THEMES can award, over the values of its scale
LargestPoints(metric) ==
  LET values == IF metric.kind = "flag" THEN {F, T} ELSE {Num(n) : n \in 0..100}
      points == {Calc(metric, x) : x \in values}
  IN CHOOSE p \in points : \A q \in points : q <= p

\* the sum of the positive points of the rules of a group of METRIC_CRITERIA
PositivePoints(g) ==
  SumSeq([i \in DOMAIN METRIC_CRITERIA[g] |-> Max(0, METRIC_CRITERIA[g][i].points)])

\* the most that line 491 can give: min(10, 5 * lines) over the line counts
LargestOthers == CHOOSE p \in {Min(10, 5 * n) : n \in 0..MaxLines} :
                    \A n \in 0..MaxLines : Min(10, 5 * n) <= p

\* the tables as a scoring finds them
TablesWellFormed ==
  /\ \A i \in DOMAIN THEMES : THEMES[i].weight >= 0
  /\ SumSeq([i \in DOMAIN THEMES |-> THEMES[i].weight]) = 100
  /\ \A i \in DOMAIN THEMES :
        THEMES[i].max_score =
           SumSeq([j \in DOMAIN THEMES[i].metrics |-> LargestPoints(THEMES[i].metrics[j])])
  /\ \A g \in DOMAIN METRIC_CRITERIA : METRIC_MAX_SCORES[g] = PositivePoints(g)
  /\ METRIC_MAX_SCORES["Others"] = LargestOthers
  /\ SumSeq([i \in DOMAIN GroupOrder |-> METRIC_MAX_SCORES[GroupOrder[i]]]) = 100

\* C27: the constant rule tables are well formed: the THEMES weights are
\* non-negative and sum to 1.0; in THEMES and in METRIC_CRITERIA each
\* dimension's declared maximum equals the sum of the largest positive points
\* of its rules; and the values of METRIC_MAX_SCORES sum to 100.
C27_TablesWellFormed == (Evaluated \/ ScoreRan) => TablesWellFormed

\* a scored record in which group 12.2 stands exactly at its declared maximum
\* with every bonus rule and no penalty rule counted, and the cap cut nothing
C27_Witness ==
  /\ Evaluated /\ ret.status = "ok"
  /\ \A i \in DOMAIN METRIC_CRITERIA["12.2"] :
        (i \in FiringRules("12.2", eval_data)) <=> (METRIC_CRITERIA["12.2"][i].points > 0)
  /\ RawScore("12.2", eval_data) = METRIC_MAX_SCORES["12.2"]
  /\ ret.scores["12.2"] = PositivePoints("12.2")
  /\ ret.overall < 100

RatingLabels == {RatingLow, RatingModerate, RatingHigh, RatingSevere}

\* what the report page finds stored
ReportStored ==
  /\ eval_data["rating"] \in RatingLabels
  /\ DOMAIN eval_data["target_scores"] = MetricGroups
  /\ eval_data["overall_score"] =
        SumSeq([i \in DOMAIN GroupOrder |-> eval_data["target_scores"][GroupOrder[i]]])
  /\ report_text # NoReport

\* C28: in every reachable state of the wizard current_step is in 0..7; step 7
\* is entered only from step 6 through 'Generate Final Evaluation Report';
\* and whenever current_step is 7 the stored rating is one of the four rating
\* labels, the stored overall_score equals the sum of the stored
\* target_scores, and report_text is set.
C28_StepsAndReport ==
  /\ [](current_step \in 0..7 /\ (current_step = 7 => ReportStored))
  /\ [][ (current_step # 7 /\ current_step' = 7) =>
           (current_step = 6 /\ run'.on = "generate") ]_vars

\* the report page of a record with a penalty that floored its group at 0
\* while other groups hold points
C28_Witness ==
  /\ current_step = 7
  /\ report_text = Str("report")
  /\ RawScore("12.2", eval_data) < 0
  /\ eval_data["target_scores"]["12.2"] = 0
  /\ eval_data["overall_score"] > 0

\* the run of 'Start New Evaluation' and of the rerun it triggers has ended
NewEvaluationStarted == run.on = "new_eval"

\* C29: 'Start New Evaluation' returns the session to its initial state:
\* after it and the rerun it triggers, eval_data equals the initial eval_data,
\* current_step is 0, extracted_data and pdf_extracted_text are empty, and no
\* score, rating, additional actions or report text of the previous
\* evaluation remains.
C29_NewEvaluationIsInitial ==
  NewEvaluationStarted =>
     /\ eval_data = InitialEvalData
     /\ current_step = 0
     /\ extracted_data = NoData
     /\ pdf_extracted_text = ""
     /\ eval_data["target_scores"] = NoScores
     /\ eval_data["overall_score"] = 0
     /\ eval_data["rating"] = ""
     /\ eval_data["other_positive_actions"] = <<"">>
     /\ report_text = NoReport

\* the home page right after 'Start New Evaluation', nothing started yet
C29_Witness ==
  /\ NewEvaluationStarted
  /\ current_step = 0
  /\ ret = NoCall

\* a field that the benchmark step filled: null in the extraction of line
\* 695, not null in the data shown for confirmation
FilledByBenchmark(f) ==
  /\ (HasKey(extracted_raw, f) => extracted_raw[f] = None)
  /\ CurrentValue(f) # None

\* C30: on the PDF confirmation page a field is marked with '*' exactly when
\* its value was filled in by the AI benchmark step rather than extracted
\* from the PDF: null in the raw extraction, non-null in the data shown.
C30_StarMarksFilled ==
  (current_step = 1) =>
     \A f \in FormFields : ai_filled(f) <=> FilledByBenchmark(f)

====
